---- MODULE Spec2Model ----
(***************************************************************************)
(* Key-management subsystem of the Fingerprint repository: the three       *)
(* KeyProvider backends (EnvKeyProvider, EncryptedFileKeyProvider,         *)
(* VaultKeyProvider) as state machines.  One behaviour drives one provider *)
(* instance (and its successors after a restart) through its public        *)
(* operations, one completed call per step.                                *)
(*                                                                         *)
(* Dates are modelled by their instant (an integer clock); JS objects with *)
(* optional fields are functions whose domain is the set of fields that    *)
(* are present, so that {...a, ...b} is function override (Spread).        *)
(***************************************************************************)
EXTENDS Integers, Sequences, FiniteSets, TLC

\* ------------------------------------------------------------------ bounds
MaxTime == 2        \* the clock runs over 1..MaxTime
MaxOps == 3         \* provider calls (and restarts) per behaviour
MaxUuids == 1       \* crypto.randomUUID() results drawn per behaviour

VARIABLES
  kind,           \* the backend a single provider instance is driven on: "env", "file",
                  \* "vault" (not read where the backends are reached through the factory)
  options,        \* KeyProviderOptions of the instance
  masterKey,      \* EncryptedFileKeyProviderOptions.masterKey of the instance
  now,            \* the clock read by new Date()
  env,            \* process.env restricted to the key prefix: keyId -> value
  keyMap,         \* EnvKeyProvider.keyMap
  metadataMap,    \* EnvKeyProvider.metadataMap
  files,          \* key directory: keyId -> StoredEncryptedKey (<keyId>.key)
  metadataCache,  \* EncryptedFileKeyProvider.metadataCache
  vaultCache,     \* VaultKeyProvider.metadataCache
  uuids,          \* number of UUIDs handed out so far
  ops,            \* number of calls made so far
  ret,            \* the last completed call: operation, argument, outcome, value
  ledger,         \* history: what the caller stored and read, per keyId
  processEnv,     \* process.env outside the key prefix (MASTER_KEY_PASSWORD, VAULT_URL, ...)
  config,         \* KeyProviderFactory.config
  providers,      \* KeyProviderFactory.providers: type -> the instance built for it
  constructed,    \* history: every provider instance built so far, in order
  keyTypeProviders, \* KeyManager.keyTypeProviders
  auditLog,       \* the entries AuditLogger has handed to processLogEntry, in order
  service,        \* SecureBlockchainService: isConnected, connectedWalletAddress
  calls,          \* asynchronous calls on one EncryptedFileKeyProvider: where each
                  \* one is suspended, its locals, and what it returned
  loggerOptions,  \* AuditLogger.options
  sinks,          \* what each AuditLogger destination has received, in order
  owner,          \* AIFingerprint: Ownable's owner
  paused,         \* AIFingerprint: Pausable's flag
  fingerprints,   \* AIFingerprint.fingerprints: hash -> AgentData
  revocations     \* AIFingerprint.revocations: hash -> RevocationData

\* the application singletons (KeyProviderFactory, KeyManager, AuditLogger,
\* SecureBlockchainService)
\* what is driven by specifications of their own: the interleaved file
\* provider calls, the AuditLogger destinations, the smart contract
loggerVars == <<loggerOptions, sinks>>

chainVars == <<owner, paused, fingerprints, revocations>>

otherVars == <<calls, loggerVars, chainVars>>

singletonVars ==
  <<processEnv, config, providers, constructed, keyTypeProviders, auditLog, service>>

appVars == <<singletonVars, otherVars>>

vars == <<kind, options, masterKey, now, env, keyMap, metadataMap, files,
          metadataCache, vaultCache, uuids, ops, ret, ledger, appVars>>

\* ------------------------------------------------------------ JS objects
EmptyMap == <<>>

Has(m, k) == k \in DOMAIN m

MapSet(m, k, v) == [x \in DOMAIN m \cup {k} |-> IF x = k THEN v ELSE m[x]]

MapDelete(m, k) == [x \in DOMAIN m \ {k} |-> m[x]]

\* {...a, ...b}
Spread(a, b) == [x \in DOMAIN a \cup DOMAIN b |-> IF x \in DOMAIN b THEN b[x] ELSE a[x]]

\* metadata.tags, or {} when the metadata has none ({...undefined} is {})
TagsOf(md) == IF Has(md, "tags") THEN md.tags ELSE EmptyMap

\* Number.prototype.toString / parseInt on the rotation counter
DecimalRange == 0..(MaxOps + 1)

RotationCountToString(n) == ToString(n)

ParseInt(s) == CHOOSE n \in DecimalRange : ToString(n) = s

\* (existingMeta.tags?.rotationCount ? parseInt(...) : 0) + 1
NextRotationCount(md) ==
  (IF Has(TagsOf(md), "rotationCount") /\ TagsOf(md).rotationCount # ""
     THEN ParseInt(TagsOf(md).rotationCount) ELSE 0) + 1

\* Date.prototype.toISOString, as the decimal of the instant
ToISOString(t) == ToString(t)

\* ---------------------------------------------------------------- secrets
\* A secret is a JS string: a sequence of UTF-16 code units.  "hi" and "lo"
\* are a high and a low surrogate, every other unit is a BMP character.
Secrets == { <<>>, <<"a", "hi", "lo">> }

MasterKeys == {"k1", "k2"}

\* Buffer encoding 'utf8': a surrogate pair is one astral scalar, a lone
\* surrogate is replaced by U+FFFD.
RECURSIVE Utf8Encode(_)
Utf8Encode(s) ==
  IF s = <<>> THEN <<>>
  ELSE IF Head(s) = "hi" /\ Len(s) >= 2 /\ s[2] = "lo"
         THEN <<"astral">> \o Utf8Encode(Tail(Tail(s)))
  ELSE IF Head(s) \in {"hi", "lo"}
         THEN <<"fffd">> \o Utf8Encode(Tail(s))
  ELSE <<Head(s)>> \o Utf8Encode(Tail(s))

RECURSIVE Utf8Decode(_)
Utf8Decode(b) ==
  IF b = <<>> THEN <<>>
  ELSE IF Head(b) = "astral" THEN <<"hi", "lo">> \o Utf8Decode(Tail(b))
  ELSE <<Head(b)>> \o Utf8Decode(Tail(b))

\* AES-256-GCM under the instance's master key.  The ciphertext, IV and
\* auth tag are one opaque envelope that only the same key opens.
Encrypt(data, mk) == [key |-> mk, data |-> Utf8Encode(data)]

DecryptOk(blob, mk) == blob.key = mk

Decrypt(blob) == Utf8Decode(blob.data)

\* ------------------------------------------------------------ call results
None == "none"

Result(st, out, val) == [st |-> st, out |-> out, val |-> val]

\* crypto.randomUUID(): the n-th call's value
Uuid(n) == "u" \o ToString(n)

\* metadata?.keyId || crypto.randomUUID()
GivenKeyId(metadata) == Has(metadata, "keyId") /\ metadata.keyId # ""

\* expiresAt && expiresAt < new Date()
IsExpired(md) == Has(md, "expiresAt") /\ md.expiresAt < now

\* rotationDue && rotationDue < new Date()
IsRotationDue(md) == Has(md, "rotationDue") /\ md.rotationDue < now

\* Faulty variant of Accessed: the counter is set to 1 instead of incremented.
AccessedOnce(md) ==
  Spread(md, [lastAccessed |-> now, accessCount |-> 1])

\* lastAccessed = new Date(); accessCount = (accessCount || 0) + 1
Accessed(md) ==
  Spread(md, [lastAccessed |-> now,
              accessCount |-> (IF Has(md, "accessCount") THEN md.accessCount ELSE 0) + 1])

\* `${keyId}-${rotationCount}`
NewKeyId(keyId, rotationCount) == keyId \o "-" \o RotationCountToString(rotationCount)

\* A getKey that re-enters itself on the provider state and key id of a call
\* still on its stack repeats that call's steps without end: it never returns.
Diverged == "Diverged"

\* ========================================================== EnvKeyProvider
\* provider state: [env, keyMap, metadataMap, uuids]

\* a provider that never consults the live environment
EnvSetNever(e, keyId) == FALSE

\* process.env[`${keyPrefix}${keyId}`], tested for truthiness
EnvSet(e, keyId) == Has(e.env, keyId) /\ e.env[keyId] # <<>>

\* loadKeysFromEnv, on the empty maps of a new instance
LoadKeysFromEnv(environment) ==
  LET ids == {k \in DOMAIN environment : environment[k] # <<>>}
  IN [env |-> environment,
      keyMap |-> [k \in ids |-> environment[k]],
      metadataMap |-> [k \in ids |-> [keyId |-> k, createdAt |-> now, accessCount |-> 0]]]

EnvGetKeyMetadata(e, keyId) ==
  IF ~Has(e.metadataMap, keyId)
    THEN IF ~EnvSet(e, keyId)
           THEN Result(e, "NotFound", None)
           ELSE LET md == [keyId |-> keyId, createdAt |-> now]
                IN Result([e EXCEPT !.metadataMap = MapSet(@, keyId, md)], "ok", md)
    ELSE Result(e, "ok", e.metadataMap[keyId])

EnvStoreKey(e, key, metadata) ==
  LET fresh == ~GivenKeyId(metadata)
      keyId == IF fresh THEN Uuid(e.uuids + 1) ELSE metadata.keyId
      fullMetadata == Spread([keyId |-> keyId, createdAt |-> now], metadata)
  IN Result([e EXCEPT !.env = MapSet(@, keyId, key),
                      !.keyMap = MapSet(@, keyId, key),
                      !.metadataMap = MapSet(@, keyId, fullMetadata),
                      !.uuids = IF fresh THEN @ + 1 ELSE @],
            "ok", keyId)

EnvListKeys(e) == Result(e, "ok", {e.metadataMap[k] : k \in DOMAIN e.metadataMap})

EnvDeleteKey(e, keyId) ==
  LET hadKey == Has(e.keyMap, keyId)
      e1 == [e EXCEPT !.keyMap = MapDelete(@, keyId),
                      !.metadataMap = MapDelete(@, keyId)]
  IN IF EnvSet(e1, keyId)
       THEN Result([e1 EXCEPT !.env = MapDelete(@, keyId)], "ok", TRUE)
       ELSE Result(e1, "ok", hadKey)

\* getKey and rotateKey call each other (getKey's auto-rotate branch calls
\* rotateKey, whose first statement is getKey), so the two are one recursive
\* operator, selected by `method`.  `stack` holds the <<state, keyId>> of the
\* getKey calls still in progress.  The result of rotateKey carries the secret
\* it re-stored (key) and the metadata object it read (meta), which the
\* calling getKey still references.
RECURSIVE EnvCall(_, _, _, _)
EnvCall(method, e, keyId, stack) ==
  IF method = "getKey" THEN
    IF <<e, keyId>> \in stack THEN Result(e, Diverged, None)
    ELSE IF ~Has(e.keyMap, keyId) /\ ~EnvSet(e, keyId) THEN Result(e, "NotFound", None)
    ELSE
      LET e1 == IF Has(e.keyMap, keyId) THEN e
                ELSE [e EXCEPT !.keyMap = MapSet(@, keyId, e.env[keyId]),
                               !.metadataMap =
                                  IF Has(@, keyId) THEN @
                                  ELSE MapSet(@, keyId, [keyId |-> keyId, createdAt |-> now,
                                                         accessCount |-> 0])]
          m == EnvGetKeyMetadata(e1, keyId)
      IN IF m.out # "ok" THEN m
         ELSE IF options.enforceExpiration /\ IsExpired(m.val)
           THEN Result(m.st, "Expired", None)
         ELSE
           LET due == options.autoRotate /\ IsRotationDue(m.val)
               r == IF due THEN EnvCall("rotateKey", m.st, keyId, stack \cup {<<e, keyId>>})
                    ELSE Result(m.st, "ok", None)
           IN IF r.out # "ok" THEN Result(r.st, r.out, None)
              ELSE
                LET metadata == IF due THEN r.meta ELSE m.val
                    e2 == IF options.auditAccess
                            THEN [r.st EXCEPT !.metadataMap = MapSet(@, keyId, Accessed(metadata))]
                            ELSE r.st
                IN Result(e2, "ok", e2.keyMap[keyId])
  ELSE
    LET g == EnvCall("getKey", e, keyId, stack)
    IN IF g.out # "ok" THEN g
       ELSE
         LET m == EnvGetKeyMetadata(g.st, keyId)
         IN IF m.out # "ok" THEN m
            ELSE
              LET existingMeta == m.val
                  rotationCount == NextRotationCount(existingMeta)
                  s == EnvStoreKey(m.st, g.val,
                         Spread(existingMeta,
                                [createdAt |-> now,
                                 tags |-> Spread(TagsOf(existingMeta),
                                                 [rotationCount |-> RotationCountToString(rotationCount),
                                                  previousKeyId |-> keyId])]))
                  newKeyId == s.val
                  rotated == Spread(existingMeta,
                                    [tags |-> Spread(TagsOf(existingMeta),
                                                     [rotated |-> "true",
                                                      rotatedAt |-> ToISOString(now),
                                                      rotatedTo |-> newKeyId])])
              IN [st |-> [s.st EXCEPT !.metadataMap = MapSet(@, keyId, rotated)],
                  out |-> "ok", val |-> newKeyId, key |-> g.val, meta |-> existingMeta]

EnvGetKey(e, keyId) == EnvCall("getKey", e, keyId, {})

EnvRotateKey(e, keyId) == EnvCall("rotateKey", e, keyId, {})

\* ================================================ EncryptedFileKeyProvider
\* provider state: [files, metadataCache, uuids, masterKey (options.masterKey)]
\* files[keyId] is the parsed content of <keyDirectory>/<keyId>.key:
\* [blob |-> encryptedData/iv/authTag, metadata |-> KeyMetadata].
\* fs errors other than ENOENT (a missing file) are not modelled.

FileGetKeyMetadata(f, keyId) ==
  IF Has(f.metadataCache, keyId) THEN Result(f, "ok", f.metadataCache[keyId])
  ELSE IF ~Has(f.files, keyId) THEN Result(f, "NotFound", None)
  ELSE LET md == f.files[keyId].metadata
       IN Result([f EXCEPT !.metadataCache = MapSet(@, keyId, md)], "ok", md)

\* Faulty variant of FileUpdateKeyMetadata: the key file is rewritten but the
\* metadata cache keeps the entry it had.
FileUpdateKeyMetadataStaleCache(f, keyId, metadata) ==
  IF ~Has(f.files, keyId) THEN Result(f, "NotFound", None)
  ELSE Result([f EXCEPT !.files = MapSet(@, keyId, [f.files[keyId] EXCEPT !.metadata = metadata])],
              "ok", None)

FileUpdateKeyMetadata(f, keyId, metadata) ==
  IF ~Has(f.files, keyId) THEN Result(f, "NotFound", None)
  ELSE Result([f EXCEPT !.files = MapSet(@, keyId, [f.files[keyId] EXCEPT !.metadata = metadata]),
                        !.metadataCache = MapSet(@, keyId, metadata)],
              "ok", None)

FileStoreKey(f, key, metadata) ==
  LET fresh == ~GivenKeyId(metadata)
      keyId == IF fresh THEN Uuid(f.uuids + 1) ELSE metadata.keyId
      fullMetadata == Spread([keyId |-> keyId, createdAt |-> now], metadata)
      storedKey == [blob |-> Encrypt(key, f.masterKey), metadata |-> fullMetadata]
  IN Result([f EXCEPT !.files = MapSet(@, keyId, storedKey),
                      !.metadataCache = MapSet(@, keyId, fullMetadata),
                      !.uuids = IF fresh THEN @ + 1 ELSE @],
            "ok", keyId)

\* A key file that cannot be used: readFile rejects (EACCES, EISDIR), or
\* JSON.parse throws (truncated text), or the text parses to null.
Unreadable == [error |-> "EACCES"]

Truncated == [error |-> "SyntaxError"]

\* A key file whose text parses to an object without a metadata property ("{}").
NoMetadata == [encryptedData |-> "", iv |-> ""]

\* the values null and undefined in a position that holds KeyMetadata
Null == [null |-> TRUE]

Undefined == [undefined |-> TRUE]

\* readFile + JSON.parse + storedKey.metadata of one key file; Null when the
\* inner catch is taken
ReadMetadata(file) ==
  IF Has(file, "error") THEN Null
  ELSE IF Has(file, "metadata") THEN file.metadata
  ELSE Undefined

\* Faulty variant of FileListKeys: the first key file that cannot be read makes
\* the whole listing fall into the outer catch, which returns [].
FileListKeysFailFast(f) ==
  LET metaOf(k) == IF Has(f.metadataCache, k) THEN f.metadataCache[k]
                   ELSE ReadMetadata(f.files[k])
  IN IF \E k \in DOMAIN f.files : metaOf(k) = Null
       THEN Result(f, "ok", {})
       ELSE Result(f, "ok", {metaOf(k) : k \in DOMAIN f.files})

\* Promise.all over the *.key files: cached metadata is returned as is, the
\* rest is read from the file and cached; a file that cannot be read yields
\* null, and nulls are filtered out of the result.
FileListKeys(f) ==
  LET metaOf(k) == IF Has(f.metadataCache, k) THEN f.metadataCache[k]
                   ELSE ReadMetadata(f.files[k])
      read == {k \in DOMAIN f.files : metaOf(k) # Null}
  IN Result([f EXCEPT !.metadataCache = [k \in DOMAIN @ \cup read |-> metaOf(k)]],
            "ok", {metaOf(k) : k \in read})

\* Faulty variant of FileDeleteKey: a missing file is reported as deleted.
FileDeleteKeyAlwaysTrue(f, keyId) ==
  Result([f EXCEPT !.files = MapDelete(@, keyId),
                   !.metadataCache = MapDelete(@, keyId)], "ok", TRUE)

FileDeleteKey(f, keyId) ==
  IF Has(f.files, keyId)
    THEN Result([f EXCEPT !.files = MapDelete(@, keyId),
                          !.metadataCache = MapDelete(@, keyId)], "ok", TRUE)
    ELSE Result(f, "ok", FALSE)

RECURSIVE FileCall(_, _, _, _)
FileCall(method, f, keyId, stack) ==
  IF method = "getKey" THEN
    IF <<f, keyId>> \in stack THEN Result(f, Diverged, None)
    ELSE IF ~Has(f.files, keyId) THEN Result(f, "NotFound", None)
    ELSE
      LET storedKey == f.files[keyId]
      IN IF options.enforceExpiration /\ IsExpired(storedKey.metadata)
           THEN Result(f, "Expired", None)
         ELSE IF options.autoRotate /\ IsRotationDue(storedKey.metadata)
           THEN LET r == FileCall("rotateKey", f, keyId, stack \cup {<<f, keyId>>})
                IN IF r.out # "ok" THEN Result(r.st, r.out, None)
                   ELSE FileCall("getKey", r.st, keyId, stack \cup {<<f, keyId>>})
         ELSE
           LET accessed == Accessed(storedKey.metadata)
               f1 == IF options.auditAccess
                       THEN [f EXCEPT !.metadataCache = MapSet(@, keyId, accessed),
                                      !.files = MapSet(@, keyId,
                                                       [storedKey EXCEPT !.metadata = accessed])]
                       ELSE f
           IN IF DecryptOk(storedKey.blob, f.masterKey)
                THEN Result(f1, "ok", Decrypt(storedKey.blob))
                ELSE Result(f1, "DecryptionFailure", None)
  ELSE
    LET g == FileCall("getKey", f, keyId, stack)
    IN IF g.out # "ok" THEN g
       ELSE
         LET m == FileGetKeyMetadata(g.st, keyId)
         IN IF m.out # "ok" THEN m
            ELSE
              LET existingMeta == m.val
                  rotationCount == NextRotationCount(existingMeta)
                  newKeyId == NewKeyId(keyId, rotationCount)
                  s == FileStoreKey(m.st, g.val,
                         [keyId |-> newKeyId,
                          createdAt |-> now,
                          tags |-> Spread(TagsOf(existingMeta),
                                          [rotationCount |-> RotationCountToString(rotationCount),
                                           previousKeyId |-> keyId])])
                  o == FileGetKeyMetadata(s.st, keyId)
              IN IF o.out # "ok" THEN o
                 ELSE
                   LET oldMetadata == o.val
                       u == FileUpdateKeyMetadata(o.st, keyId,
                              Spread(oldMetadata,
                                     [tags |-> Spread(TagsOf(oldMetadata),
                                                      [rotated |-> "true",
                                                       rotatedAt |-> ToISOString(now),
                                                       rotatedTo |-> newKeyId])]))
                   IN IF u.out # "ok" THEN u
                      ELSE [st |-> u.st, out |-> "ok", val |-> newKeyId, key |-> g.val,
                            meta |-> existingMeta]

FileGetKey(f, keyId) == FileCall("getKey", f, keyId, {})

FileRotateKey(f, keyId) == FileCall("rotateKey", f, keyId, {})

\* ======================================================== VaultKeyProvider
\* provider state: [vaultCache, uuids]

\* Faulty variant of VaultGetKey: a key the stub has stored can be read.
VaultGetKeyOfStored(v, keyId) ==
  IF Has(v.vaultCache, keyId) THEN Result(v, "ok", <<>>)
  ELSE Result(v, "NotImplemented", None)

VaultGetKey(v, keyId) == Result(v, "NotImplemented", None)

VaultStoreKey(v, key, metadata) ==
  LET fresh == ~GivenKeyId(metadata)
      keyId == IF fresh THEN Uuid(v.uuids + 1) ELSE metadata.keyId
      fullMetadata == Spread([keyId |-> keyId, createdAt |-> now], metadata)
  IN Result([v EXCEPT !.vaultCache = MapSet(@, keyId, fullMetadata),
                      !.uuids = IF fresh THEN @ + 1 ELSE @],
            "ok", keyId)

VaultListKeys(v) == Result(v, "ok", {v.vaultCache[k] : k \in DOMAIN v.vaultCache})

VaultDeleteKey(v, keyId) ==
  Result([v EXCEPT !.vaultCache = MapDelete(@, keyId)], "ok", Has(v.vaultCache, keyId))

VaultRotateKey(v, keyId) ==
  Result([v EXCEPT !.uuids = @ + 1], "ok", Uuid(v.uuids + 1))

VaultGetKeyMetadata(v, keyId) ==
  IF Has(v.vaultCache, keyId) THEN Result(v, "ok", v.vaultCache[keyId])
  ELSE Result(v, "NotFound", None)

\* ============================================== KeyProvider (the interface)
Kinds == {"env", "file", "vault"}

ProviderState ==
  CASE kind = "env" -> [env |-> env, keyMap |-> keyMap, metadataMap |-> metadataMap,
                        uuids |-> uuids]
    [] kind = "file" -> [files |-> files, metadataCache |-> metadataCache, uuids |-> uuids,
                         masterKey |-> masterKey]
    [] kind = "vault" -> [vaultCache |-> vaultCache, uuids |-> uuids]

GetKey(st, keyId) ==
  CASE kind = "env" -> EnvGetKey(st, keyId)
    [] kind = "file" -> FileGetKey(st, keyId)
    [] kind = "vault" -> VaultGetKey(st, keyId)

StoreKey(st, key, metadata) ==
  CASE kind = "env" -> EnvStoreKey(st, key, metadata)
    [] kind = "file" -> FileStoreKey(st, key, metadata)
    [] kind = "vault" -> VaultStoreKey(st, key, metadata)

ListKeys(st) ==
  CASE kind = "env" -> EnvListKeys(st)
    [] kind = "file" -> FileListKeys(st)
    [] kind = "vault" -> VaultListKeys(st)

DeleteKey(st, keyId) ==
  CASE kind = "env" -> EnvDeleteKey(st, keyId)
    [] kind = "file" -> FileDeleteKey(st, keyId)
    [] kind = "vault" -> VaultDeleteKey(st, keyId)

RotateKey(st, keyId) ==
  CASE kind = "env" -> EnvRotateKey(st, keyId)
    [] kind = "file" -> FileRotateKey(st, keyId)
    [] kind = "vault" -> VaultRotateKey(st, keyId)

GetKeyMetadata(st, keyId) ==
  CASE kind = "env" -> EnvGetKeyMetadata(st, keyId)
    [] kind = "file" -> FileGetKeyMetadata(st, keyId)
    [] kind = "vault" -> VaultGetKeyMetadata(st, keyId)

\* The provider state a call leaves behind becomes the state of the program.
Install(st) ==
  /\ uuids' = st.uuids
  /\ IF kind = "env"
       THEN env' = st.env /\ keyMap' = st.keyMap /\ metadataMap' = st.metadataMap
       ELSE UNCHANGED <<env, keyMap, metadataMap>>
  /\ IF kind = "file"
       THEN files' = st.files /\ metadataCache' = st.metadataCache
       ELSE UNCHANGED <<files, metadataCache>>
  /\ IF kind = "vault" THEN vaultCache' = st.vaultCache ELSE UNCHANGED vaultCache

\* ------------------------------------------------- what a call started from
\* Is there a key stored under keyId (a map entry, a variable, a file)?
Exists(st, keyId) ==
  CASE kind = "env" -> Has(st.keyMap, keyId) \/ EnvSet(st, keyId)
    [] kind = "file" -> Has(st.files, keyId)
    [] kind = "vault" -> Has(st.vaultCache, keyId)

StoredMetadata(st, keyId) ==
  CASE kind = "env" -> IF Has(st.metadataMap, keyId) THEN st.metadataMap[keyId] ELSE EmptyMap
    [] kind = "file" -> IF Has(st.files, keyId) /\ Has(st.files[keyId], "metadata")
                          THEN st.files[keyId].metadata ELSE EmptyMap
    [] kind = "vault" -> IF Has(st.vaultCache, keyId) THEN st.vaultCache[keyId] ELSE EmptyMap

\* Was the key file written under the master key this instance holds?
OwnKey(st, keyId) ==
  (kind = "file" /\ Has(st.files, keyId) /\ Has(st.files[keyId], "blob"))
    => DecryptOk(st.files[keyId].blob, masterKey)

Pre(st, keyId) ==
  [exists |-> Exists(st, keyId),
   expired |-> IsExpired(StoredMetadata(st, keyId)),
   due |-> IsRotationDue(StoredMetadata(st, keyId)),
   ownKey |-> OwnKey(st, keyId),
   newExisted |-> FALSE]

NoPre == [exists |-> FALSE, expired |-> FALSE, due |-> FALSE, ownKey |-> TRUE,
          newExisted |-> FALSE]

NoCall == [op |-> "none", id |-> None, out |-> "ok", val |-> None, pre |-> NoPre]

\* ------------------------------------------------------------------ inputs
BaseIds == {"a"}

\* Partial<KeyMetadata> objects callers pass to storeKey
MetaInputs ==
  { EmptyMap,
    [keyId |-> "a"],
    [keyId |-> "a", expiresAt |-> 0],
    [keyId |-> "a", expiresAt |-> 1],
    [keyId |-> "a", rotationDue |-> 0],
    [keyId |-> "a", expiresAt |-> 0, rotationDue |-> 0] }

\* process.env when the first EnvKeyProvider is constructed
InitialEnvs == { EmptyMap }

KnownIds == BaseIds \cup DOMAIN ledger

\* ----------------------------------------------------------------- history
\* secret: the value last stored under the id; n, t: the successful getKey
\* calls since then and the time of the last one; clean: no other call has
\* touched the id since it was stored; live: stored and not deleted since;
\* carried: stored by an earlier provider instance.
Entry(secret) ==
  [secret |-> secret, n |-> 0, t |-> 0, clean |-> TRUE, live |-> TRUE, carried |-> FALSE]

Touch(l, keyId) == IF Has(l, keyId) THEN [l EXCEPT ![keyId].clean = FALSE] ELSE l

\* ----------------------------------------------------- singletons, as built
\* enum KeyProviderType, enum KeyType
ProviderTypes == {"env", "encrypted-file", "vault"}

KeyTypes == {"deployment", "wallet", "signing", "api"}

\* KeyProviderOptions a provider constructor fills in
OptionsDefault == [autoRotate |-> FALSE, enforceExpiration |-> TRUE, auditAccess |-> TRUE]

\* KeyProviderFactory constructor with no config
FactoryConfigDefault == [defaultProviderType |-> "env"]

\* KeyManager constructor
KeyTypeProvidersDefault ==
  [t \in KeyTypes |-> IF t \in {"wallet", "signing"} THEN "encrypted-file" ELSE "env"]

\* SecureBlockchainService constructor (the JSON-RPC provider could be built)
ServiceDefault == [isConnected |-> TRUE, connectedWalletAddress |-> None]

\* getInstance() of each singleton, no provider requested yet
OtherFresh ==
  /\ calls = <<>>
  /\ loggerOptions = EmptyMap
  /\ sinks = EmptyMap
  /\ owner = None
  /\ paused = FALSE
  /\ fingerprints = EmptyMap
  /\ revocations = EmptyMap

AppFresh ==
  /\ OtherFresh
  /\ config = FactoryConfigDefault
  /\ providers = EmptyMap
  /\ constructed = <<>>
  /\ keyTypeProviders = KeyTypeProvidersDefault
  /\ auditLog = <<>>
  /\ service = ServiceDefault

\* -------------------------------------------------------------------- Init
Init ==
  /\ kind \in Kinds
  /\ options \in [autoRotate : BOOLEAN, enforceExpiration : BOOLEAN, auditAccess : BOOLEAN]
  /\ masterKey = "k1"
  /\ now = 1
  /\ env \in (IF kind = "env" THEN InitialEnvs ELSE {EmptyMap})
  /\ keyMap = LoadKeysFromEnv(env).keyMap
  /\ metadataMap = LoadKeysFromEnv(env).metadataMap
  /\ files = EmptyMap
  /\ metadataCache = EmptyMap
  /\ vaultCache = EmptyMap
  /\ uuids = 0
  /\ ops = 0
  /\ ret = NoCall
  /\ ledger = [k \in DOMAIN keyMap |-> Entry(keyMap[k])]
  /\ processEnv = EmptyMap
  /\ AppFresh

\* ----------------------------------------------------------------- actions
\* The caller makes one call at a time and waits for it: after a call that
\* never returns it makes no further call (until the process is restarted).
Hung == ret.out = Diverged

CallGetKey(keyId) ==
  /\ ops < MaxOps /\ ~Hung
  /\ LET st == ProviderState
         r == GetKey(st, keyId)
     IN /\ Install(r.st)
        /\ ret' = [op |-> "getKey", id |-> keyId, out |-> r.out, val |-> r.val,
                   pre |-> Pre(st, keyId)]
        /\ ledger' = IF ~Has(ledger, keyId) THEN ledger
                     ELSE IF r.out = "ok"
                       THEN [ledger EXCEPT ![keyId].n = @ + 1, ![keyId].t = now]
                       ELSE Touch(ledger, keyId)
  /\ ops' = ops + 1
  /\ UNCHANGED <<appVars, kind, options, masterKey, now>>

CallStoreKey(key, metadata) ==
  /\ ops < MaxOps /\ ~Hung
  /\ GivenKeyId(metadata) \/ uuids < MaxUuids
  /\ LET st == ProviderState
         r == StoreKey(st, key, metadata)
     IN /\ Install(r.st)
        /\ ret' = [op |-> "storeKey", id |-> r.val, out |-> r.out, val |-> r.val,
                   pre |-> Pre(st, r.val)]
        /\ ledger' = MapSet(ledger, r.val, Entry(key))
  /\ ops' = ops + 1
  /\ UNCHANGED <<appVars, kind, options, masterKey, now>>

CallListKeys ==
  /\ ops < MaxOps /\ ~Hung
  /\ LET st == ProviderState
         r == ListKeys(st)
     IN /\ Install(r.st)
        /\ ret' = [op |-> "listKeys", id |-> None, out |-> r.out, val |-> r.val,
                   pre |-> NoPre]
  /\ ops' = ops + 1
  /\ UNCHANGED <<appVars, kind, options, masterKey, now, ledger>>

CallDeleteKey(keyId) ==
  /\ ops < MaxOps /\ ~Hung
  /\ LET st == ProviderState
         r == DeleteKey(st, keyId)
     IN /\ Install(r.st)
        /\ ret' = [op |-> "deleteKey", id |-> keyId, out |-> r.out, val |-> r.val,
                   pre |-> Pre(st, keyId)]
        /\ ledger' = IF Has(ledger, keyId)
                       THEN [ledger EXCEPT ![keyId].live = FALSE, ![keyId].clean = FALSE]
                       ELSE ledger
  /\ ops' = ops + 1
  /\ UNCHANGED <<appVars, kind, options, masterKey, now>>

CallRotateKey(keyId) ==
  /\ ops < MaxOps /\ ~Hung
  /\ kind = "vault" => uuids < MaxUuids
  /\ LET st == ProviderState
         r == RotateKey(st, keyId)
     IN /\ Install(r.st)
        /\ ret' = [op |-> "rotateKey", id |-> keyId, out |-> r.out, val |-> r.val,
                   pre |-> IF r.out = "ok"
                             THEN [Pre(st, keyId) EXCEPT !.newExisted = Exists(st, r.val)]
                             ELSE Pre(st, keyId)]
        /\ ledger' = IF r.out = "ok" /\ kind # "vault"
                       THEN MapSet(Touch(ledger, keyId), r.val,
                                   [Entry(r.key) EXCEPT !.clean = FALSE])
                       ELSE Touch(ledger, keyId)
  /\ ops' = ops + 1
  /\ UNCHANGED <<appVars, kind, options, masterKey, now>>

CallGetKeyMetadata(keyId) ==
  /\ ops < MaxOps /\ ~Hung
  /\ LET st == ProviderState
         r == GetKeyMetadata(st, keyId)
     IN /\ Install(r.st)
        /\ ret' = [op |-> "getKeyMetadata", id |-> keyId, out |-> r.out, val |-> r.val,
                   pre |-> Pre(st, keyId)]
  /\ ops' = ops + 1
  /\ UNCHANGED <<appVars, kind, options, masterKey, now, ledger>>

\* Time passes between calls.
Tick ==
  /\ now < MaxTime
  /\ now' = now + 1
  /\ ret' = IF Hung THEN ret ELSE NoCall
  /\ UNCHANGED <<appVars, kind, options, masterKey, env, keyMap, metadataMap, files,
                 metadataCache, vaultCache, uuids, ops, ledger>>

\* The process restarts: a new provider instance over what the old one left
\* behind (process.env, the key directory, nothing for the vault stub).
Untracked(l) == [k \in DOMAIN l |-> [l[k] EXCEPT !.clean = FALSE, !.carried = TRUE]]

RestartEnv ==
  /\ kind = "env" /\ ops < MaxOps
  /\ keyMap' = LoadKeysFromEnv(env).keyMap
  /\ metadataMap' = LoadKeysFromEnv(env).metadataMap
  /\ UNCHANGED <<masterKey, env, files, metadataCache, vaultCache>>

RestartFile(mk) ==
  /\ kind = "file" /\ ops < MaxOps
  /\ masterKey' = mk
  /\ metadataCache' = EmptyMap
  /\ UNCHANGED <<env, keyMap, metadataMap, files, vaultCache>>

RestartVault ==
  /\ kind = "vault" /\ ops < MaxOps
  /\ vaultCache' = EmptyMap
  /\ UNCHANGED <<masterKey, env, keyMap, metadataMap, files, metadataCache>>

Restart ==
  /\ RestartEnv \/ (\E mk \in MasterKeys : RestartFile(mk)) \/ RestartVault
  /\ ops' = ops + 1
  /\ ret' = NoCall
  /\ ledger' = Untracked(ledger)
  /\ UNCHANGED <<appVars, kind, options, now, uuids>>

Next ==
  \/ \E keyId \in KnownIds : CallGetKey(keyId)
  \/ \E key \in Secrets, metadata \in MetaInputs : CallStoreKey(key, metadata)
  \/ CallListKeys
  \/ \E keyId \in KnownIds : CallDeleteKey(keyId)
  \/ \E keyId \in KnownIds : CallRotateKey(keyId)
  \/ \E keyId \in KnownIds : CallGetKeyMetadata(keyId)
  \/ Tick
  \/ Restart

Spec == Init /\ [][Next]_vars

\* ================================================================== claims
Local == kind \in {"env", "file"}

Tag(md, name) == IF Has(TagsOf(md), name) THEN TagsOf(md)[name] ELSE None

\* the secret the caller last stored under keyId
StoredSecret(keyId) == IF Has(ledger, keyId) THEN ledger[keyId].secret ELSE None

\* C1: on every backend, storeKey(S, M) -> id immediately followed by
\* getKey(id) returns exactly S.  (A read refused as Expired, the outcome
\* section 4.1 prescribes for metadata that is already expired, is not held
\* against the round trip.)
C1_StoreThenGetReturnsSecret ==
  (ret.op = "storeKey" /\ ret.out = "ok") =>
    LET g == GetKey(ProviderState, ret.val)
    IN g.out # "Expired" => (g.out = "ok" /\ g.val = StoredSecret(ret.val))

\* C2: a key file written by an earlier instance is read back unchanged by a
\* new instance holding the same master key, and is refused with a
\* decryption error (not NotFound) by one holding a different master key.
C2_RestartKeepsKeysAndTellsWrongMasterKey ==
  (kind = "file" /\ ret.op = "getKey" /\ ret.pre.exists /\ Has(ledger, ret.id)
     /\ ledger[ret.id].carried /\ ret.out # "Expired") =>
    IF ret.pre.ownKey
      THEN ret.out = "ok" /\ ret.val = StoredSecret(ret.id)
      ELSE ret.out = "DecryptionFailure"

\* C3: every rotateKey returns a keyId that did not exist before the call,
\* and the rotatedTo tags of the stored metadata form no cycle.
RotatedTo(keyId) == Tag(StoredMetadata(ProviderState, keyId), "rotatedTo")

StoredIds ==
  CASE kind = "env" -> DOMAIN metadataMap
    [] kind = "file" -> DOMAIN files
    [] kind = "vault" -> DOMAIN vaultCache

RECURSIVE LeadsTo(_, _, _)
LeadsTo(from, to, steps) ==
  /\ steps > 0
  /\ RotatedTo(from) # None
  /\ \/ RotatedTo(from) = to
     \/ LeadsTo(RotatedTo(from), to, steps - 1)

RotationChainsAcyclic ==
  \A k \in StoredIds : ~LeadsTo(k, k, Cardinality(StoredIds))

C3_RotationMakesNewKeyAndNoCycle ==
  Local =>
    /\ (ret.op = "rotateKey" /\ ret.out = "ok") => ~ret.pre.newExisted
    /\ RotationChainsAcyclic

\* C4: EncryptedFileKeyProvider, after newId = rotateKey(id) of an existing,
\* non-expired key: getKey(id) and getKey(newId) return the same secret,
\* id's metadata is tagged rotated = "true" and rotatedTo = newId, and
\* newId's metadata is tagged previousKeyId = id.
C4_FileRotationLineage ==
  (kind = "file" /\ ret.op = "rotateKey" /\ ret.out = "ok" /\ ~ret.pre.expired) =>
    LET st == ProviderState
        old == GetKey(st, ret.id)
        new == GetKey(st, ret.val)
        oldMeta == GetKeyMetadata(st, ret.id)
        newMeta == GetKeyMetadata(st, ret.val)
    IN /\ old.out = "ok" /\ new.out = "ok" /\ old.val = new.val
       /\ oldMeta.out = "ok"
       /\ Tag(oldMeta.val, "rotated") = "true"
       /\ Tag(oldMeta.val, "rotatedTo") = ret.val
       /\ newMeta.out = "ok"
       /\ Tag(newMeta.val, "previousKeyId") = ret.id

C4_Witness ==
  /\ kind = "file" /\ ret.op = "rotateKey" /\ ret.out = "ok" /\ ~ret.pre.expired
  /\ ret.val # ret.id
  /\ Has(files, ret.id) /\ Has(files, ret.val)

\* C5: EnvKeyProvider, rotateKey(id) of an existing key returns a newId
\* different from id; both are then retrievable with the same secret, id is
\* tagged rotated = "true" / rotatedTo = newId and newId previousKeyId = id.
C5_EnvRotationLineage ==
  (kind = "env" /\ ret.op = "rotateKey" /\ ret.out = "ok") =>
    LET st == ProviderState
        old == GetKey(st, ret.id)
        new == GetKey(st, ret.val)
        oldMeta == GetKeyMetadata(st, ret.id)
        newMeta == GetKeyMetadata(st, ret.val)
    IN /\ ret.val # ret.id
       /\ old.out = "ok" /\ new.out = "ok" /\ old.val = new.val
       /\ oldMeta.out = "ok"
       /\ Tag(oldMeta.val, "rotated") = "true"
       /\ Tag(oldMeta.val, "rotatedTo") = ret.val
       /\ newMeta.out = "ok"
       /\ Tag(newMeta.val, "previousKeyId") = ret.id

\* C6: with autoRotate on, getKey of an existing, non-expired key whose
\* rotationDue is past returns (the secret of the newly rotated key).
C6_AutoRotatingReadReturns ==
  (Local /\ options.autoRotate /\ ret.op = "getKey"
     /\ ret.pre.exists /\ ~ret.pre.expired /\ ret.pre.due /\ ret.pre.ownKey) =>
    (ret.out = "ok" /\ ret.val = StoredSecret(ret.id))

\* C7: getKey of a key whose expiresAt is past fails with Expired when
\* enforceExpiration is on and returns the stored secret when it is off.
C7_ExpiredKeyRead ==
  (Local /\ ret.op = "getKey" /\ ret.pre.exists /\ ret.pre.expired /\ ret.pre.ownKey) =>
    IF options.enforceExpiration
      THEN ret.out = "Expired"
      ELSE ret.out = "ok" /\ ret.val = StoredSecret(ret.id)

Reported(st, keyId) ==
  LET m == GetKeyMetadata(st, keyId)
      md == IF m.out = "ok" THEN m.val ELSE EmptyMap
  IN [count |-> IF Has(md, "accessCount") THEN md.accessCount ELSE 0,
      last |-> IF Has(md, "lastAccessed") THEN md.lastAccessed ELSE 0]

C10_AccessMetadataMonotonic ==
  [][ (ret'.op \in {"getKey", "storeKey", "rotateKey", "listKeys", "getKeyMetadata"}) =>
        \A keyId \in KnownIds :
          (Exists(ProviderState, keyId) /\ Exists(ProviderState, keyId)') =>
            /\ Reported(ProviderState, keyId)'.count >= Reported(ProviderState, keyId).count
            /\ Reported(ProviderState, keyId)'.last >= Reported(ProviderState, keyId).last
    ]_vars

\* ========================================= key directory with damaged files
\* A new EncryptedFileKeyProvider over a key directory an earlier instance
\* left behind; key files may have been damaged since, and may be damaged
\* while this instance runs.
ValidKeyFile(file) == Has(file, "blob") /\ Has(file, "metadata")

LeftBehind(keyId) ==
  [blob |-> Encrypt(<<"a", "hi", "lo">>, "k1"), metadata |-> [keyId |-> keyId, createdAt |-> 0]]

Damages == {Unreadable, Truncated, NoMetadata}

InitialDirectories ==
  { EmptyMap,
    [b |-> LeftBehind("b")],
    [b |-> LeftBehind("b"), c |-> Truncated],
    [b |-> LeftBehind("b"), c |-> Unreadable],
    [b |-> LeftBehind("b"), c |-> NoMetadata],
    [b |-> Unreadable, c |-> Truncated] }

ListInit ==
  /\ kind = "file"
  /\ options = OptionsDefault
  /\ masterKey = "k1"
  /\ now = 1
  /\ env = EmptyMap /\ keyMap = EmptyMap /\ metadataMap = EmptyMap
  /\ files \in InitialDirectories
  /\ metadataCache = EmptyMap
  /\ vaultCache = EmptyMap
  /\ uuids = 0
  /\ ops = 0
  /\ ret = NoCall
  /\ ledger = EmptyMap
  /\ processEnv = EmptyMap
  /\ AppFresh

\* Something outside the process damages a key file.
DamageKeyFile(keyId, damage) ==
  /\ Has(files, keyId) /\ ValidKeyFile(files[keyId])
  /\ files' = MapSet(files, keyId, damage)
  /\ ret' = NoCall
  /\ ledger' = Touch(ledger, keyId)
  /\ UNCHANGED <<appVars, kind, options, masterKey, now, env, keyMap, metadataMap,
                 metadataCache, vaultCache, uuids, ops>>

ListNext ==
  \/ \E metadata \in MetaInputs : CallStoreKey(<<"a", "hi", "lo">>, metadata)
  \/ CallListKeys
  \/ \E keyId \in DOMAIN files, damage \in Damages : DamageKeyFile(keyId, damage)
  \/ Restart

ListSpec == ListInit /\ [][ListNext]_vars

\* every key file that is not valid is unreadable or unparseable
OnlyUnreadableDamage ==
  \A k \in DOMAIN files : ValidKeyFile(files[k]) \/ Has(files[k], "error")

MaxAppOps == 4

\* m.k || dflt, for strings
OrElse(m, k, dflt) == IF Has(m, k) /\ m[k] # "" THEN m[k] ELSE dflt

\* m.k as spread into an object literal ({...undefined} is {})
Sub(m, k) == IF Has(m, k) THEN m[k] ELSE EmptyMap

\* updateConfig: the new this.config
UpdatedConfig(cfg, c) ==
  Spread(Spread(cfg, c),
         [envOptions |-> Spread(Sub(cfg, "envOptions"), Sub(c, "envOptions")),
          encryptedFileOptions |-> Spread(Sub(cfg, "encryptedFileOptions"),
                                          Sub(c, "encryptedFileOptions")),
          vaultOptions |-> Spread(Sub(cfg, "vaultOptions"), Sub(c, "vaultOptions"))])

\* crypto.pbkdf2Sync(password, salt, 100000, 32, 'sha256'): a 32-byte key
\* that is a function of the pair and differs from pair to pair
DeriveKey(password, salt) == "pbkdf2(" \o password \o "," \o salt \o ")"

\* crypto.randomBytes(32): the factory of a process draws it once, and every
\* draw gives a value no earlier draw gave (draws are told apart by the
\* number of EncryptedFileKeyProvider instances built before)
RandomKey ==
  LET n == Cardinality({i \in 1..Len(constructed) : constructed[i].type = "encrypted-file"})
  IN IF n = 0 THEN "random32" ELSE "random32-" \o ToString(n + 1)

\* initEncryptedFileOptions: the options handed to the provider, and whether
\* a generated master key was saved to <keyDirectory>/.master.key
InitEncryptedFileOptions(cfg, o) ==
  LET keyDirectory == OrElse(o, "keyDirectory", "~/.fingerprint/keys")
      given == Has(o, "masterKey") /\ o.masterKey # ""
      derived == Has(cfg, "masterKeyPassword") /\ cfg.masterKeyPassword # ""
      mk == IF given THEN o.masterKey
            ELSE IF derived
              THEN DeriveKey(cfg.masterKeyPassword,
                             OrElse(cfg, "masterKeySalt", "fingerprint-salt"))
            ELSE RandomKey
  IN [options |-> Spread([keyDirectory |-> keyDirectory, masterKey |-> mk,
                          algorithm |-> "aes-256-gcm"], o),
      generated |-> ~given /\ ~derived]

\* Faulty variant of NoVaultUrl: a missing URL goes unnoticed.
VaultUrlNotRequired(cfg) == FALSE

\* !this.config.vaultOptions?.vaultUrl
NoVaultUrl(cfg) == OrElse(Sub(cfg, "vaultOptions"), "vaultUrl", "") = ""

\* The element of a one-element set: names a value that is computed once.
Only(S) == CHOOSE x \in S : TRUE

\* The singletons and the backends as one value, so that a method which
\* makes several calls in a row can be followed call by call.
World ==
  [config |-> config, providers |-> providers, constructed |-> constructed,
   keyTypeProviders |-> keyTypeProviders, auditLog |-> auditLog, service |-> service,
   env |-> env, keyMap |-> keyMap, metadataMap |-> metadataMap, files |-> files,
   metadataCache |-> metadataCache, masterKey |-> masterKey, vaultCache |-> vaultCache,
   uuids |-> uuids]

\* The world w is what the step leaves behind.
Becomes(w) ==
  /\ config' = w.config /\ providers' = w.providers /\ constructed' = w.constructed
  /\ keyTypeProviders' = w.keyTypeProviders /\ auditLog' = w.auditLog
  /\ service' = w.service
  /\ env' = w.env /\ keyMap' = w.keyMap /\ metadataMap' = w.metadataMap
  /\ files' = w.files /\ metadataCache' = w.metadataCache /\ masterKey' = w.masterKey
  /\ vaultCache' = w.vaultCache /\ uuids' = w.uuids

\* Faulty variant of ProvidersHas: the cache is never consulted.
ProvidersHasNever(w, type) == FALSE

\* this.providers.has(type)
ProvidersHas(w, type) == Has(w.providers, type)

\* new EnvKeyProvider(..) / new EncryptedFileKeyProvider(..) /
\* new VaultKeyProvider(..): the instance with the options it copied
NewProvider(w, type) ==
  [id |-> Len(w.constructed) + 1,
   type |-> type,
   options |->
     CASE type = "env" -> Spread(OptionsDefault, Sub(w.config, "envOptions"))
       [] type = "encrypted-file" ->
            Spread(Spread(OptionsDefault, [algorithm |-> "aes-256-gcm"]),
                   InitEncryptedFileOptions(w.config,
                                            Sub(w.config, "encryptedFileOptions")).options)
       [] type = "vault" ->
            Spread(Spread(OptionsDefault, [keyPrefix |-> "fingerprint/"]),
                   Sub(w.config, "vaultOptions"))]

\* getProvider(type): the outcome, the instance returned, whether it was
\* built by this call
GetProvider(w, type) ==
  IF ProvidersHas(w, type) THEN [out |-> "ok", val |-> w.providers[type], built |-> FALSE]
  ELSE IF type = "vault" /\ NoVaultUrl(w.config)
    THEN [out |-> "ConfigError", val |-> None, built |-> FALSE]
  ELSE [out |-> "ok", val |-> NewProvider(w, type), built |-> TRUE]

\* The state of the backend behind the instance getProvider returned: a new
\* instance starts from its constructor (loadKeysFromEnv, empty caches).
Backend(w, type, g) ==
  CASE type = "env" ->
         [env |-> w.env,
          keyMap |-> IF g.built THEN LoadKeysFromEnv(w.env).keyMap ELSE w.keyMap,
          metadataMap |-> IF g.built THEN LoadKeysFromEnv(w.env).metadataMap
                          ELSE w.metadataMap,
          uuids |-> w.uuids]
    [] type = "encrypted-file" ->
         [files |-> IF g.built /\ InitEncryptedFileOptions(
                                    w.config, Sub(w.config, "encryptedFileOptions")).generated
                      THEN MapSet(w.files, ".master", Truncated) ELSE w.files,
          metadataCache |-> IF g.built THEN EmptyMap ELSE w.metadataCache,
          uuids |-> w.uuids,
          masterKey |-> g.val.options.masterKey]
    [] type = "vault" ->
         [vaultCache |-> IF g.built THEN EmptyMap ELSE w.vaultCache, uuids |-> w.uuids]

\* The world after getProvider(type) returned g and the call made on the
\* instance left its backend in st.
Installed(w, type, g, st) ==
  LET w1 == [w EXCEPT !.providers = IF g.built THEN MapSet(@, type, g.val) ELSE @,
                      !.constructed = IF g.built THEN Append(@, g.val) ELSE @,
                      !.uuids = st.uuids]
  IN CASE type = "env" ->
            [w1 EXCEPT !.env = st.env, !.keyMap = st.keyMap, !.metadataMap = st.metadataMap]
       [] type = "encrypted-file" ->
            [w1 EXCEPT !.files = st.files, !.metadataCache = st.metadataCache,
                       !.masterKey = st.masterKey]
       [] type = "vault" -> [w1 EXCEPT !.vaultCache = st.vaultCache]

\* what a configuration call leaves alone
NoProvider ==
  UNCHANGED <<providers, constructed, uuids, env, keyMap, metadataMap, files,
              metadataCache, masterKey, vaultCache>>

\* ============================================================= KeyManager
\* getDefaultKeyId
GetDefaultKeyId(keyType) ==
  CASE keyType = "deployment" -> OrElse(processEnv, "DEPLOYMENT_KEY_ID", "default_deployment_key")
    [] keyType = "wallet" -> OrElse(processEnv, "WALLET_KEY_ID", "default_wallet_key")
    [] keyType = "signing" -> OrElse(processEnv, "SIGNING_KEY_ID", "default_signing_key")
    [] keyType = "api" -> OrElse(processEnv, "API_KEY_ID", "default_api_key")

\* keyId || this.getDefaultKeyId(keyType); "" stands for an omitted keyId
FinalKeyId(keyType, keyId) == IF keyId # "" THEN keyId ELSE GetDefaultKeyId(keyType)

\* Faulty variant of OfKeyType: entries of every key type pass.
OfAnyKeyType(keyType, metadata) == TRUE

\* the filter of KeyManager.listKeys
OfKeyType(keyType, metadata) ==
  \/ Tag(metadata, "keyType") = keyType
  \/ Tag(metadata, "keyType") \in {None, ""}

\* createCipheriv accepts the algorithm and a key of its length
CipherUsable(o) == o.algorithm = "aes-256-gcm" /\ o.masterKey # ""

\* the method of the KeyProvider interface, on the instance p
ProviderCall(method, p, st, keyId, key, metadata) ==
  CASE p.type = "env" ->
         (CASE method = "getKey" -> EnvGetKey(st, keyId)
           [] method = "storeKey" -> EnvStoreKey(st, key, metadata)
           [] method = "listKeys" -> EnvListKeys(st)
           [] method = "deleteKey" -> EnvDeleteKey(st, keyId)
           [] method = "rotateKey" -> EnvRotateKey(st, keyId)
           [] method = "getKeyMetadata" -> EnvGetKeyMetadata(st, keyId))
    [] p.type = "encrypted-file" ->
         (CASE method = "getKey" -> FileGetKey(st, keyId)
           [] method = "storeKey" ->
                IF CipherUsable(p.options) THEN FileStoreKey(st, key, metadata)
                ELSE Result([st EXCEPT !.uuids = IF GivenKeyId(metadata) THEN @ ELSE @ + 1],
                            "CipherError", None)
           [] method = "listKeys" -> FileListKeys(st)
           [] method = "deleteKey" -> FileDeleteKey(st, keyId)
           [] method = "rotateKey" -> FileRotateKey(st, keyId)
           [] method = "getKeyMetadata" -> FileGetKeyMetadata(st, keyId))
    [] p.type = "vault" ->
         (CASE method = "getKey" -> VaultGetKey(st, keyId)
           [] method = "storeKey" -> VaultStoreKey(st, key, metadata)
           [] method = "listKeys" -> VaultListKeys(st)
           [] method = "deleteKey" -> VaultDeleteKey(st, keyId)
           [] method = "rotateKey" -> VaultRotateKey(st, keyId)
           [] method = "getKeyMetadata" -> VaultGetKeyMetadata(st, keyId))

\* the object KeyManager.initialize passes to updateConfig
InitializeConfig(environment) ==
  IF environment = "production"
    THEN [vaultOptions |->
            [vaultUrl |-> OrElse(processEnv, "VAULT_URL", ""),
             authToken |-> IF Has(processEnv, "VAULT_TOKEN")
                             THEN processEnv.VAULT_TOKEN ELSE Undefined,
             keyPrefix |-> "fingerprint/"]]
    ELSE [masterKeyPassword |-> OrElse(processEnv, "MASTER_KEY_PASSWORD", ""),
          encryptedFileOptions |->
            [keyDirectory |-> OrElse(processEnv, "KEY_DIRECTORY", "./keys"),
             masterKey |-> OrElse(processEnv, "MASTER_KEY", ""),
             algorithm |-> OrElse(processEnv, "ALGORITHM", "")]]

\* what a configuration call leaves alone outside the factory and KeyManager
NoBackend == UNCHANGED <<kind, options, now, ledger, processEnv, auditLog, service, otherVars>>

Initialize(masterKeyPassword, environment) ==
  /\ ops < MaxAppOps
  /\ keyTypeProviders' =
       IF environment = "production"
         THEN [keyTypeProviders EXCEPT !["wallet"] = "vault", !["signing"] = "vault"]
         ELSE keyTypeProviders
  /\ config' = UpdatedConfig(config, InitializeConfig(environment))
  /\ ret' = [op |-> "initialize", id |-> environment, out |-> "ok",
             val |-> InitializeConfig(environment),
             pre |-> [masterKeyPassword |-> masterKeyPassword]]
  /\ ops' = ops + 1
  /\ NoProvider /\ NoBackend

SetProviderForKeyType(keyType, providerType) ==
  /\ ops < MaxAppOps
  /\ keyTypeProviders' = [keyTypeProviders EXCEPT ![keyType] = providerType]
  /\ ret' = [op |-> "setProviderForKeyType", id |-> keyType, out |-> "ok",
             val |-> providerType, pre |-> NoPre]
  /\ ops' = ops + 1
  /\ UNCHANGED config
  /\ NoProvider /\ NoBackend

UpdateConfig(c) ==
  /\ ops < MaxAppOps
  /\ config' = UpdatedConfig(config, c)
  /\ ret' = [op |-> "updateConfig", id |-> None, out |-> "ok", val |-> c, pre |-> NoPre]
  /\ ops' = ops + 1
  /\ UNCHANGED keyTypeProviders
  /\ NoProvider /\ NoBackend

SetDefaultProviderType(type) ==
  /\ ops < MaxAppOps
  /\ config' = [config EXCEPT !.defaultProviderType = type]
  /\ ret' = [op |-> "setDefaultProviderType", id |-> type, out |-> "ok", val |-> None,
             pre |-> NoPre]
  /\ ops' = ops + 1
  /\ UNCHANGED keyTypeProviders
  /\ NoProvider /\ NoBackend

\* what a call on the singletons leaves alone
Fixed == UNCHANGED <<kind, options, now, ledger, processEnv, otherVars>>

\* factory.getProvider(type), called by the application
CallGetProvider(type) ==
  /\ ops < MaxAppOps
  /\ \E g \in {GetProvider(World, type)} :
       /\ \E w \in {IF g.out = "ok" THEN Installed(World, type, g, Backend(World, type, g))
                    ELSE World} : Becomes(w)
       /\ ret' = [op |-> "getProvider", id |-> type, out |-> g.out, val |-> g.val,
                  pre |-> [built |-> g.built, cache |-> DOMAIN providers,
                           count |-> Len(constructed)]]
  /\ ops' = ops + 1
  /\ Fixed

\* factory.getProvider(): type defaults to this.config.defaultProviderType
CallGetDefaultProvider == CallGetProvider(config.defaultProviderType)

\* A KeyManager method in the world w0: getProviderForKeyType, then the
\* provider's method (and, for listKeys, the key type filter).  The result
\* carries the world the call leaves behind.
KeyManagerMethod(w0, method, keyType, keyId, key, metadata) ==
  Only({ Only({
    IF g.out # "ok"
      THEN [w |-> w, out |-> g.out, val |-> None, id |-> keyId,
            type |-> w.keyTypeProviders[keyType], built |-> FALSE]
      ELSE Only({
        [w |-> Installed(w, g.val.type, g, r.st),
         out |-> r.out,
         val |-> IF method = "listKeys" /\ r.out = "ok"
                   THEN {md \in r.val : OfKeyType(keyType, md)}
                   ELSE r.val,
         id |-> IF method = "storeKey" THEN r.val ELSE keyId,
         type |-> g.val.type,
         built |-> g.built]
        : r \in {ProviderCall(method, g.val, Backend(w, g.val.type, g), keyId, key,
                              metadata)} })
    : g \in {GetProvider(w, w.keyTypeProviders[keyType])} })
    : w \in {w0} })

\* The application calls a KeyManager method.
KeyManagerCall(method, keyType, keyId, key, metadata) ==
  /\ ops < MaxOps
  /\ (method = "storeKey" /\ ~GivenKeyId(metadata)) => uuids < MaxUuids
  /\ (method = "rotateKey" /\ keyTypeProviders[keyType] = "vault") => uuids < MaxUuids
  /\ \E k \in {KeyManagerMethod(World, method, keyType, keyId, key, metadata)} :
       /\ \E w \in {k.w} : Becomes(w)
       /\ ret' = [op |-> method, id |-> k.id, out |-> k.out, val |-> k.val,
                  pre |-> [keyType |-> keyType, type |-> k.type, key |-> key,
                           logged |-> Len(auditLog), built |-> k.built,
                           cache |-> DOMAIN providers, count |-> Len(constructed)]]
  /\ ops' = ops + 1
  /\ Fixed

KeyManagerGetKey(keyType, keyId) ==
  KeyManagerCall("getKey", keyType, FinalKeyId(keyType, keyId), <<>>, EmptyMap)

KeyManagerStoreKey(keyType, key, metadata) ==
  KeyManagerCall("storeKey", keyType, None, key, metadata)

KeyManagerListKeys(keyType) ==
  KeyManagerCall("listKeys", keyType, None, <<>>, EmptyMap)

KeyManagerDeleteKey(keyType, keyId) ==
  KeyManagerCall("deleteKey", keyType, keyId, <<>>, EmptyMap)

KeyManagerRotateKey(keyType, keyId) ==
  KeyManagerCall("rotateKey", keyType, FinalKeyId(keyType, keyId), <<>>, EmptyMap)

KeyManagerGetKeyMetadata(keyType, keyId) ==
  KeyManagerCall("getKeyMetadata", keyType, FinalKeyId(keyType, keyId), <<>>, EmptyMap)

\* ------------------------------------------------- the factory, configured
\* process.env of the process (outside the key prefix)
ProcessEnvs ==
  { EmptyMap,
    [MASTER_KEY_PASSWORD |-> "pw"],
    [MASTER_KEY_PASSWORD |-> "pw", MASTER_KEY |-> "k1", ALGORITHM |-> "aes-256-gcm",
     VAULT_URL |-> "https://vault"] }

\* Partial<KeyProviderFactoryConfig> objects the application passes to updateConfig
ConfigInputs ==
  { [vaultOptions |-> [vaultUrl |-> "https://vault"]],
    [vaultOptions |-> [vaultUrl |-> ""]],
    [masterKeyPassword |-> "pw"],
    [masterKeyPassword |-> "pw", masterKeySalt |-> "salt"],
    [encryptedFileOptions |-> [masterKey |-> "k2"]] }

Passwords == {"pw", "test-password"}

Environments == {"production", "development"}

FactoryInit ==
  /\ kind = "env"
  /\ options = OptionsDefault
  /\ masterKey = "k1"
  /\ now = 1
  /\ env = EmptyMap
  /\ keyMap = EmptyMap
  /\ metadataMap = EmptyMap
  /\ files = EmptyMap
  /\ metadataCache = EmptyMap
  /\ vaultCache = EmptyMap
  /\ uuids = 0
  /\ ops = 0
  /\ ret = NoCall
  /\ ledger = EmptyMap
  /\ processEnv \in ProcessEnvs
  /\ AppFresh

FactoryNext ==
  \/ \E p \in Passwords, environment \in Environments : Initialize(p, environment)
  \/ \E providerType \in ProviderTypes : SetProviderForKeyType("wallet", providerType)
  \/ \E c \in ConfigInputs : UpdateConfig(c)
  \/ \E type \in ProviderTypes : SetDefaultProviderType(type)
  \/ \E type \in ProviderTypes : CallGetProvider(type)
  \/ CallGetDefaultProvider
  \/ \E keyType \in {"wallet", "signing"} : KeyManagerGetKey(keyType, "")

FactorySpec == FactoryInit /\ [][FactoryNext]_vars


\* ------------------------------------------------- claims on the singletons
Binding(keyType) == keyTypeProviders[keyType]

\* C13: after every call KeyManager.initialize(p, env), whatever calls came
\* before it, WALLET and SIGNING are bound to the vault backend if env is
\* 'production' and to the encrypted-file backend otherwise.
C13_InitializeBindsWalletAndSigning ==
  ret.op = "initialize" =>
    \A keyType \in {"wallet", "signing"} :
      Binding(keyType) = IF ret.id = "production" THEN "vault" ELSE "encrypted-file"

\* C14: KeyManager.initialize(p, env) with env other than 'production'
\* passes updateConfig a configuration whose masterKeyPassword is p.
C14_InitializeForwardsPassword ==
  (ret.op = "initialize" /\ ret.id # "production") =>
    ret.val.masterKeyPassword = ret.pre.masterKeyPassword

\* a master password is configured and no non-empty raw master key is
PasswordOnly ==
  /\ OrElse(config, "masterKeyPassword", "") # ""
  /\ OrElse(Sub(config, "encryptedFileOptions"), "masterKey", "") = ""

\* C15: whenever the factory builds the EncryptedFileKeyProvider while a
\* master password is configured and no non-empty raw master key is, the
\* options handed to the provider carry the key derived from (password,
\* salt) as masterKey and 'aes-256-gcm' as algorithm.
C15_PasswordDerivesTheMasterKey ==
  (ret.op = "getProvider" /\ ret.id = "encrypted-file" /\ ret.out = "ok"
     /\ ret.pre.built /\ PasswordOnly) =>
    /\ ret.val.options.masterKey =
         DeriveKey(config.masterKeyPassword,
                   OrElse(config, "masterKeySalt", "fingerprint-salt"))
    /\ ret.val.options.algorithm = "aes-256-gcm"

Built(type) == {i \in 1..Len(constructed) : constructed[i].type = type}

\* C16: for each provider kind, over any sequence of getProvider,
\* updateConfig and setDefaultProviderType calls, the backend is constructed
\* at most once, and every successful getProvider(kind) returns that one
\* instance, with the options it was constructed with.
C16_OneInstancePerKind ==
  /\ \A type \in ProviderTypes : Cardinality(Built(type)) <= 1
  /\ \A type \in DOMAIN providers : \E i \in Built(type) : providers[type] = constructed[i]
  /\ (ret.op = "getProvider" /\ ret.out = "ok") =>
       /\ ret.val.type = ret.id
       /\ \E i \in Built(ret.id) : ret.val = constructed[i]
       /\ providers[ret.id] = ret.val

\* getProvider(VAULT) returned the cached instance after the configured
\* vault URL had been changed
C16_Witness ==
  /\ ret.op = "getProvider" /\ ret.id = "vault" /\ ret.out = "ok" /\ ~ret.pre.built
  /\ ret.val.options.vaultUrl # config.vaultOptions.vaultUrl

\* no non-empty vault URL is configured
NoUrlConfigured ==
  \/ ~Has(config, "vaultOptions")
  \/ ~Has(config.vaultOptions, "vaultUrl")
  \/ config.vaultOptions.vaultUrl = ""

\* the call asked the factory for the vault provider
AskedForVault ==
  \/ ret.op = "getProvider" /\ ret.id = "vault"
  \/ ret.op = "getKey" /\ Has(ret.pre, "keyType") /\ ret.pre.type = "vault"

\* the call failed with the configuration error and built and cached nothing
RefusedVault ==
  /\ ret.out = "ConfigError"
  /\ Built("vault") = {}
  /\ DOMAIN providers = ret.pre.cache
  /\ Len(constructed) = ret.pre.count

LogLevels == <<"debug", "info", "warning", "error", "critical">>

LevelIndex(level) == CHOOSE i \in 1..Len(LogLevels) : LogLevels[i] = level

\* AuditLogger constructor outside production, no options given
LoggerOptions == [minLogLevel |-> "info", includeStackTrace |-> TRUE]

\* log(): the entry handed to processLogEntry, unless the level is below
\* minLogLevel
Log(w, level, eventType, operation, actor, target, result, details) ==
  IF LevelIndex(level) < LevelIndex(LoggerOptions.minLogLevel) THEN w
  ELSE
    LET stack == LoggerOptions.includeStackTrace
                   /\ level \in {"warning", "error", "critical"}
        logEntry == [timestamp |-> ToISOString(now), level |-> level,
                     eventType |-> eventType, operation |-> operation, actor |-> actor,
                     target |-> target, result |-> result,
                     details |-> IF stack THEN Spread(details, [stackTrace |-> "Error at"])
                                 ELSE details,
                     sessionId |-> "session", source |-> "server"]
    IN [w EXCEPT !.auditLog = Append(@, logEntry)]

\* logBlockchainTransaction; txHash "" stands for an omitted txHash, which
\* JSON.stringify leaves out of the entry
LogBlockchainTransaction(w, operation, actor, contractAddress, chainId, txHash, success, details) ==
  Log(w, IF success THEN "info" ELSE "warning", "blockchain_transaction", operation, actor,
      contractAddress, IF success THEN "success" ELSE "failure",
      Spread(IF txHash = "" THEN [chainId |-> chainId]
             ELSE [chainId |-> chainId, txHash |-> txHash], details))

\* logSignatureEvent
LogSignatureEvent(w, isGeneration, operation, actor, dataType, success, details) ==
  Log(w, IF success THEN "info" ELSE "warning",
      IF isGeneration THEN "signature_generation" ELSE "signature_verification",
      operation, actor, dataType, IF success THEN "success" ELSE "failure", details)

\* ================================================ SecureBlockchainService
\* (in Node.js: isRunningInBrowser is false)
BlockchainConfig == [contractAddress |-> "0xC0", chainId |-> 1]

\* keys new ethers.Wallet accepts; it throws on any other string
PrivateKeys == { <<"0", "x", "1">> }

ValidPrivateKey(key) == key \in PrivateKeys

\* wallet.getAddress(): a one-way function of the private key
AddressOf(privateKey) == IF privateKey = <<"0", "x", "1">> THEN "0xA1" ELSE "0xA2"

\* Faulty variant of KeyDetails: the private key is put into the entry.
KeyDetailsWithSecret(keyId, privateKey) ==
  [keyId |-> IF keyId # "" THEN keyId ELSE "default", privateKey |-> privateKey]

\* { keyId: keyId || 'default' }, where privateKey is in scope
KeyDetails(keyId, privateKey) == [keyId |-> IF keyId # "" THEN keyId ELSE "default"]

\* what the service notes of a keyManager.getKey(keyType, keyId) it made:
\* the arguments, and whether a secret came back
Request(keyType, keyId, k) ==
  [keyType |-> keyType, keyId |-> keyId, logged |-> Len(k.w.auditLog),
   secret |-> k.out = "ok" /\ k.val # Null /\ k.val # <<>>]

\* connectWalletWithStoredKey in the world w
ConnectWalletWithStoredKey(w, keyId) ==
  Only({
    IF k.out = "ok" /\ k.val # <<>> /\ ValidPrivateKey(k.val)
      THEN [w |-> LogBlockchainTransaction(
                    [k.w EXCEPT !.service = [isConnected |-> TRUE,
                                             connectedWalletAddress |-> AddressOf(k.val)]],
                    "Wallet connected using stored key", AddressOf(k.val),
                    BlockchainConfig.contractAddress, BlockchainConfig.chainId, "",
                    TRUE, KeyDetails(keyId, k.val)),
            val |-> [address |-> AddressOf(k.val)],
            requests |-> <<Request("wallet", keyId, k)>>]
      ELSE [w |-> [k.w EXCEPT !.service.isConnected = FALSE], val |-> Null,
            requests |-> <<Request("wallet", keyId, k)>>]
    : k \in {KeyManagerMethod(w, "getKey", "wallet", FinalKeyId("wallet", keyId), <<>>,
                              EmptyMap)} })

\* generateEIP712Signature in the world w
GenerateEIP712Signature(w, agent, keyId) ==
  Only({
    IF k.out = "ok" /\ k.val # <<>> /\ ValidPrivateKey(k.val)
      THEN [w |-> LogSignatureEvent(
                    k.w, TRUE, "Generated EIP-712 signature", AddressOf(k.val),
                    "AgentFingerprint", TRUE,
                    Spread(KeyDetails(keyId, k.val),
                           [timestamp |-> now,
                            agent |-> [id |-> agent.id, name |-> agent.name,
                                       provider |-> agent.provider,
                                       version |-> agent.version]])),
            val |-> [signature |-> "0xSig", signerAddress |-> AddressOf(k.val),
                     timestamp |-> now],
            requests |-> <<Request("signing", keyId, k)>>]
      ELSE [w |-> k.w, val |-> Null, requests |-> <<Request("signing", keyId, k)>>]
    : k \in {KeyManagerMethod(w, "getKey", "signing", FinalKeyId("signing", keyId), <<>>,
                              EmptyMap)} })

\* the transaction was sent through a contract that has a signer, and mined
Sent(w, mined) == w.service.connectedWalletAddress # None /\ mined

\* what a call on the service reports
ServiceRet(op, keyId, out, val, requests) ==
  [op |-> op, id |-> keyId, out |-> out, val |-> val,
   pre |-> [logged |-> Len(auditLog), requests |-> requests,
            connectedWalletAddress |-> service.connectedWalletAddress]]

ConnectWallet(keyId) ==
  /\ ops < MaxOps
  /\ \E c \in {ConnectWalletWithStoredKey(World, keyId)} :
       /\ \E w \in {c.w} : Becomes(w)
       /\ ret' = ServiceRet("connectWallet", keyId, "ok", c.val, c.requests)
  /\ ops' = ops + 1
  /\ Fixed

CallGenerateEIP712Signature(agent, keyId) ==
  /\ ops < MaxOps
  /\ \E s \in {GenerateEIP712Signature(World, agent, keyId)} :
       /\ \E w \in {s.w} : Becomes(w)
       /\ ret' = ServiceRet("generateEIP712Signature", keyId, "ok", s.val, s.requests)
  /\ ops' = ops + 1
  /\ Fixed

RegisterFingerprint(agent, useEIP712, keyId, mined) ==
  /\ ops < MaxOps
  /\ IF ~service.isConnected
       THEN UNCHANGED <<appVars, env, keyMap, metadataMap, files, metadataCache, masterKey,
                        vaultCache, uuids>>
            /\ ret' = ServiceRet("registerFingerprint", keyId, "NotConnected", None, <<>>)
       ELSE
         \E c \in {IF service.connectedWalletAddress = None
                     THEN ConnectWalletWithStoredKey(World, keyId)
                     ELSE [w |-> World, val |-> Undefined, requests |-> <<>>]} :
         \E s \in {IF useEIP712 THEN GenerateEIP712Signature(c.w, agent, keyId)
                   ELSE [w |-> c.w, val |-> Undefined, requests |-> <<>>]} :
         \E done \in {s.val # Null /\ Sent(s.w, mined)} :
           /\ \E w \in {IF done
                          THEN LogBlockchainTransaction(
                                 s.w, "Registered fingerprint",
                                 s.w.service.connectedWalletAddress,
                                 BlockchainConfig.contractAddress, BlockchainConfig.chainId,
                                 "0xtx", TRUE,
                                 [fingerprintHash |-> agent.fingerprintHash,
                                  agentId |-> agent.id, blockNumber |-> 7])
                          ELSE s.w} : Becomes(w)
           /\ ret' = ServiceRet("registerFingerprint", keyId, "ok", done,
                                   c.requests \o s.requests)
  /\ ops' = ops + 1
  /\ Fixed

RevokeFingerprint(fingerprintHash, keyId, supportsRevocation, mined) ==
  /\ ops < MaxOps
  /\ IF ~service.isConnected
       THEN UNCHANGED <<appVars, env, keyMap, metadataMap, files, metadataCache, masterKey,
                        vaultCache, uuids>>
            /\ ret' = ServiceRet("revokeFingerprint", keyId, "NotConnected", None, <<>>)
       ELSE IF ~supportsRevocation
       THEN UNCHANGED <<appVars, env, keyMap, metadataMap, files, metadataCache, masterKey,
                        vaultCache, uuids>>
            /\ ret' = ServiceRet("revokeFingerprint", keyId, "ok", FALSE, <<>>)
       ELSE
         \E c \in {IF service.connectedWalletAddress = None
                     THEN ConnectWalletWithStoredKey(World, keyId)
                     ELSE [w |-> World, val |-> Undefined, requests |-> <<>>]} :
         \E w1 \in {c.w} :
         \E done \in {Sent(w1, mined)} :
           /\ \E w \in {IF done
                          THEN LogBlockchainTransaction(
                                 w1, "Revoked fingerprint", w1.service.connectedWalletAddress,
                                 BlockchainConfig.contractAddress, BlockchainConfig.chainId,
                                 "0xtx", TRUE,
                                 [fingerprintHash |-> fingerprintHash, blockNumber |-> 7])
                          ELSE w1} : Becomes(w)
           /\ ret' = ServiceRet("revokeFingerprint", keyId, "ok", done, c.requests)
  /\ ops' = ops + 1
  /\ Fixed

\* ------------------------------------------- the application, started up
\* keys the application stores: a wallet private key, and a string that is
\* not one
AppSecrets == { <<"0", "x", "1">>, <<"p", "w", "d">> }

AppMetaInputs ==
  { [keyId |-> "a", tags |-> [keyType |-> "wallet"]],
    [keyId |-> "b", tags |-> [keyType |-> "signing"]],
    [keyId |-> "c"] }

Agents ==
  { [id |-> "agent-1", name |-> "n", provider |-> "p", version |-> "1",
     fingerprintHash |-> "0xf1"] }

\* process.env and the environment KeyManager.initialize was called with at
\* start-up ("none": it was not called)
StartUps ==
  { [processEnv |-> EmptyMap, environment |-> "none"],
    [processEnv |-> [MASTER_KEY_PASSWORD |-> "pw"], environment |-> "development"],
    [processEnv |-> [MASTER_KEY_PASSWORD |-> "pw", MASTER_KEY |-> "k1",
                     ALGORITHM |-> "aes-256-gcm", VAULT_URL |-> "https://vault"],
     environment |-> "development"],
    [processEnv |-> [MASTER_KEY_PASSWORD |-> "pw", MASTER_KEY |-> "k1",
                     ALGORITHM |-> "aes-256-gcm", VAULT_URL |-> "https://vault"],
     environment |-> "production"] }

AppInit ==
  /\ kind = "env"
  /\ options = OptionsDefault
  /\ masterKey = "k1"
  /\ now = 1
  /\ env = EmptyMap
  /\ keyMap = EmptyMap
  /\ metadataMap = EmptyMap
  /\ files = EmptyMap
  /\ metadataCache = EmptyMap
  /\ vaultCache = EmptyMap
  /\ uuids = 0
  /\ ops = 0
  /\ ret = NoCall
  /\ ledger = EmptyMap
  /\ \E s \in StartUps :
       /\ processEnv = s.processEnv
       /\ config = IF s.environment = "none" THEN FactoryConfigDefault
                   ELSE UpdatedConfig(FactoryConfigDefault, InitializeConfig(s.environment))
       /\ keyTypeProviders =
            IF s.environment = "production"
              THEN [KeyTypeProvidersDefault EXCEPT !["wallet"] = "vault",
                                                   !["signing"] = "vault"]
              ELSE KeyTypeProvidersDefault
  /\ providers = EmptyMap
  /\ constructed = <<>>
  /\ auditLog = <<>>
  /\ service = ServiceDefault
  /\ OtherFresh

AppNext ==
  \/ \E keyType \in {"wallet", "api"}, keyId \in {"", "a"} : KeyManagerGetKey(keyType, keyId)
  \/ \E keyType \in {"wallet", "api"}, key \in AppSecrets, metadata \in AppMetaInputs :
       KeyManagerStoreKey(keyType, key, metadata)
  \/ \E keyType \in {"wallet", "signing", "api"} : KeyManagerListKeys(keyType)
  \/ \E keyType \in {"wallet", "api"} : KeyManagerDeleteKey(keyType, "a")
  \/ \E keyType \in {"wallet", "api"} : KeyManagerRotateKey(keyType, "a")
  \/ \E keyType \in {"wallet", "api"} : KeyManagerGetKeyMetadata(keyType, "a")
  \/ \E keyId \in {"", "a"} : ConnectWallet(keyId)
  \/ \E agent \in Agents : CallGenerateEIP712Signature(agent, "a")
  \/ \E agent \in Agents, useEIP712 \in BOOLEAN, mined \in BOOLEAN :
       RegisterFingerprint(agent, useEIP712, "a", mined)
  \/ \E supportsRevocation \in BOOLEAN, mined \in BOOLEAN :
       RevokeFingerprint("0xf1", "a", supportsRevocation, mined)

AppSpec == AppInit /\ [][AppNext]_vars


\* ------------------------------------------------ claims on the application
\* the metadata entries the backend of the given type holds
BackendMetadata(type) ==
  CASE type = "env" -> {metadataMap[k] : k \in DOMAIN metadataMap}
    [] type = "encrypted-file" ->
         {files[k].metadata : k \in {x \in DOMAIN files : Has(files[x], "metadata")}}
    [] type = "vault" -> {vaultCache[k] : k \in DOMAIN vaultCache}

\* the call was made through KeyManager
ThroughKeyManager == Has(ret.pre, "keyType")

\* C12: KeyManager.listKeys(type) returns exactly the metadata entries of
\* the bound backend whose tags.keyType equals type or that carry no
\* keyType tag; an entry tagged with another key type is never returned.
C12_ListKeysFiltersByKeyType ==
  (ret.op = "listKeys" /\ ThroughKeyManager /\ ret.out = "ok") =>
    /\ ret.val = {md \in BackendMetadata(ret.pre.type) :
                    \/ ~Has(TagsOf(md), "keyType")
                    \/ TagsOf(md).keyType = ret.pre.keyType}
    /\ \A md \in ret.val :
         Has(TagsOf(md), "keyType") => TagsOf(md).keyType = ret.pre.keyType

\* listKeys(WALLET) on a backend that holds a wallet key and a signing key
C12_Witness ==
  /\ ret.op = "listKeys" /\ ThroughKeyManager /\ ret.out = "ok"
  /\ ret.pre.keyType = "wallet"
  /\ \E md \in BackendMetadata(ret.pre.type) : Tag(md, "keyType") = "signing"
  /\ \E md \in ret.val : Tag(md, "keyType") = "wallet"

\* C18: VaultKeyProvider.getKey(id) fails with the not-implemented error for
\* every id and in every state of the provider, also after storeKey has
\* returned that id; it never returns a secret.
C18_VaultGetKeyNotImplemented ==
  kind = "vault" =>
    /\ \A keyId \in KnownIds \cup DOMAIN vaultCache :
         GetKey(ProviderState, keyId).out = "NotImplemented"
    /\ ret.op = "getKey" => (ret.out = "NotImplemented" /\ ret.val = None)

\* getKey was refused for an id that storeKey had returned
C18_Witness ==
  /\ kind = "vault" /\ ret.op = "getKey" /\ ret.out = "NotImplemented"
  /\ Has(vaultCache, ret.id) /\ Has(ledger, ret.id)

\* the entries the last call handed to the AuditLogger
Logged == {i \in DOMAIN auditLog : i > ret.pre.logged}

\* C19: every getKey, storeKey, rotateKey and deleteKey made through
\* KeyManager produces an AuditLogger entry naming the keyId and the key
\* type; when the operation fails the entry is at WARNING or above.
C19_KeyOperationsAreAudited ==
  (ret.op \in {"getKey", "storeKey", "rotateKey", "deleteKey"} /\ ThroughKeyManager) =>
    \E i \in Logged :
      /\ auditLog[i].target = ret.id
      /\ Has(auditLog[i].details, "keyType")
      /\ auditLog[i].details.keyType = ret.pre.keyType
      /\ ret.out # "ok" => LevelIndex(auditLog[i].level) >= LevelIndex("warning")

\* JSON.stringify(logEntry), as the sequence of its string tokens: a field
\* name or an ordinary value is one token, a stored key's value contributes
\* its code units.
DetailKeys ==
  <<"chainId", "txHash", "keyId", "privateKey", "timestamp", "agent", "fingerprintHash",
    "agentId", "blockNumber", "stackTrace">>

DetailTokens(k, v) ==
  CASE k \in {"chainId", "timestamp", "blockNumber"} -> <<ToString(v)>>
    [] k = "agent" -> <<"id", v.id, "name", v.name, "provider", v.provider,
                        "version", v.version>>
    [] k = "privateKey" -> v
    [] OTHER -> <<v>>

RECURSIVE StringifyDetails(_, _)
StringifyDetails(details, keys) ==
  IF keys = <<>> THEN <<>>
  ELSE (IF Has(details, Head(keys))
          THEN <<Head(keys)>> \o DetailTokens(Head(keys), details[Head(keys)])
          ELSE <<>>)
       \o StringifyDetails(details, Tail(keys))

StringifyEntry(logEntry) ==
  <<"timestamp", logEntry.timestamp, "level", logEntry.level,
    "eventType", logEntry.eventType, "operation", logEntry.operation,
    "actor", logEntry.actor, "target", logEntry.target, "result", logEntry.result,
    "details">>
  \o StringifyDetails(logEntry.details, DetailKeys)
  \o <<"sessionId", logEntry.sessionId, "source", logEntry.source>>

\* secret occurs in text as a substring
Contains(text, secret) ==
  \E i \in 1..(Len(text) - Len(secret) + 1) :
    SubSeq(text, i, i + Len(secret) - 1) = secret

\* C20: no entry handed to an AuditLogger sink during a storeKey, getKey or
\* rotateKey call, or during a SecureBlockchainService operation that
\* obtains a key, contains the raw secret in any field; an entry made for a
\* key names it by its keyId.
C20_NoSecretInAuditLog ==
  \A i \in DOMAIN auditLog :
    /\ \A secret \in AppSecrets : ~Contains(StringifyEntry(auditLog[i]), secret)
    /\ DOMAIN auditLog[i].details \subseteq
         {"chainId", "txHash", "keyId", "timestamp", "agent", "fingerprintHash", "agentId",
          "blockNumber", "stackTrace"}
    /\ auditLog[i].operation \in {"Wallet connected using stored key",
                                  "Generated EIP-712 signature"}
         => Has(auditLog[i].details, "keyId")

\* the wallet was connected with the stored private key "a" and a
\* fingerprint was registered by it, both logged
C20_Witness ==
  /\ Has(files, "a") \/ Has(keyMap, "a")
  /\ \E i \in DOMAIN auditLog :
       /\ auditLog[i].operation = "Wallet connected using stored key"
       /\ auditLog[i].details.keyId = "a"
  /\ \E i \in DOMAIN auditLog : auditLog[i].operation = "Registered fingerprint"

\* the last call was made on SecureBlockchainService
OnService == Has(ret.pre, "requests")

\* C21: whenever SecureBlockchainService has obtained a secret from
\* KeyManager.getKey during connectWallet, registerFingerprint,
\* revokeFingerprint or generateEIP712Signature, an audit entry naming that
\* key is emitted after the hand-off, whether the wallet construction or
\* signing that follows succeeds or fails.
C21_EveryHandOffIsLogged ==
  OnService =>
    \A n \in DOMAIN ret.pre.requests :
      ret.pre.requests[n].secret =>
        \E i \in DOMAIN auditLog :
          /\ i > ret.pre.requests[n].logged
          /\ Has(auditLog[i].details, "keyId")
          /\ auditLog[i].details.keyId = KeyDetails(ret.pre.requests[n].keyId, <<>>).keyId

\* C24: every registerFingerprint and revokeFingerprint call that sends its
\* transaction has requested the WALLET key keyId from KeyManager first,
\* also when the service already held a connected wallet address.
C24_WalletKeyRequestedPerTransaction ==
  (ret.op \in {"registerFingerprint", "revokeFingerprint"} /\ ret.out = "ok"
     /\ ret.val = TRUE) =>
    \E n \in DOMAIN ret.pre.requests :
      /\ ret.pre.requests[n].keyType = "wallet"
      /\ ret.pre.requests[n].keyId = ret.id


\* =========================== EncryptedFileKeyProvider, calls interleaved
\* Within one process several calls on the provider can be in flight: each
\* runs until its next await and resumes when the file operation it waits
\* for has completed.  fs.writeFile opens the file with flag 'w' (the file
\* is created or truncated), writes the text and closes the file; the
\* fs.readFile of another call can complete between any two of these.
\* options is OptionsDefault here, so getKey does not rotate.
MaxCalls == 2

\* the text of a key file after writeFile's open: "", on which JSON.parse
\* throws (Truncated is the text after a short write)
Emptied == [error |-> "SyntaxError", length |-> 0]

IoProvider ==
  [files |-> files, metadataCache |-> metadataCache, uuids |-> uuids, masterKey |-> masterKey]

\* a call as it starts: op(keyId) or storeKey(key, metadata); phase is the
\* method of the provider it is in, pc the file operation it awaits, path
\* the key file of that operation, seen the key files it has read
NewCall(op, keyId, key, metadata) ==
  [op |-> op, keyId |-> keyId, key |-> key, metadata |-> metadata,
   phase |-> IF op = "rotateKey" THEN "getKey" ELSE op, pc |-> "readFile", path |-> keyId, content |-> EmptyMap, newKeyId |-> None,
   out |-> "pending", val |-> None, seen |-> <<>>]

Return(call, out, val) == [call EXCEPT !.pc = "done", !.out = out, !.val = val]

\* rotateKey from the rotation count to storeKey's ensureKeyDirectory
StoreNew(call, existingMeta) ==
  LET rotationCount == NextRotationCount(existingMeta)
      newKeyId == NewKeyId(call.keyId, rotationCount)
  IN [call EXCEPT !.phase = "storeKey", !.pc = "mkdir", !.newKeyId = newKeyId,
                  !.metadata =
                    [keyId |-> newKeyId, createdAt |-> now,
                     tags |-> Spread(TagsOf(existingMeta),
                                     [rotationCount |-> RotationCountToString(rotationCount),
                                      previousKeyId |-> call.keyId])]]

\* rotateKey from oldMetadata to updateKeyMetadata's readFile
UpdateOld(call, oldMetadata) ==
  [call EXCEPT !.phase = "updateKeyMetadata", !.pc = "readFile", !.path = call.keyId,
               !.metadata =
                 Spread(oldMetadata,
                        [tags |-> Spread(TagsOf(oldMetadata),
                                         [rotated |-> "true", rotatedAt |-> ToISOString(now),
                                          rotatedTo |-> call.newKeyId])])]

\* getKey has produced out and val: it returns them, to the caller or to
\* rotateKey, which goes on with getKeyMetadata(keyId)
AfterGetKey(call, cache, out, val) ==
  IF call.op = "getKey" \/ out # "ok" THEN Return(call, out, val)
  ELSE IF Has(cache, call.keyId)
    THEN StoreNew([call EXCEPT !.key = val], cache[call.keyId])
  ELSE [call EXCEPT !.key = val, !.phase = "getKeyMetadata", !.pc = "readFile",
                    !.path = call.keyId]

IoFixed ==
  UNCHANGED <<kind, options, masterKey, now, env, keyMap, metadataMap, vaultCache, ret,
              ledger, singletonVars, loggerVars, chainVars>>

\* The application calls a method and does not wait for it.
Begin(op, keyId, key, metadata) ==
  /\ Len(calls) < MaxCalls
  /\ \E call \in {NewCall(op, keyId, key, metadata)} :
       calls' = Append(calls,
                  CASE op = "storeKey" -> [call EXCEPT !.pc = "mkdir"]
                    [] op = "getKeyMetadata" /\ Has(metadataCache, keyId) ->
                         Return(call, "ok", metadataCache[keyId])
                    [] OTHER -> call)
  /\ ops' = ops + 1
  /\ UNCHANGED <<files, metadataCache, uuids>>
  /\ IoFixed

\* fs.readFile and JSON.parse complete for call c, which runs to its next
\* await.
FsReadFile(c) ==
  /\ calls[c].pc = "readFile"
  /\ IF ~Has(files, calls[c].path)
       THEN /\ calls' = [calls EXCEPT ![c] = Return(@, "NotFound", None)]
            /\ UNCHANGED metadataCache
       ELSE
         \E file \in {files[calls[c].path]} :
         \E call \in {[calls[c] EXCEPT !.seen = Append(@, [by |-> calls[c].phase,
                                                           file |-> file])]} :
           IF Has(file, "error")
             THEN /\ calls' = [calls EXCEPT ![c] = Return(call, file.error, None)]
                  /\ UNCHANGED metadataCache
           ELSE IF call.phase = "getKey"
             THEN \E g \in {FileGetKey(IoProvider, call.path)} :
                    IF g.out = "Expired"
                      THEN /\ calls' = [calls EXCEPT ![c] = Return(call, g.out, None)]
                           /\ UNCHANGED metadataCache
                    ELSE IF options.auditAccess
                      THEN /\ metadataCache' = g.st.metadataCache
                           /\ calls' = [calls EXCEPT ![c] =
                                          [call EXCEPT !.pc = "writeFile.open",
                                                       !.content = g.st.files[call.path],
                                                       !.out = g.out, !.val = g.val]]
                    ELSE /\ calls' = [calls EXCEPT ![c] =
                                        AfterGetKey(call, metadataCache, g.out, g.val)]
                         /\ UNCHANGED metadataCache
           ELSE IF call.phase = "updateKeyMetadata"
             THEN /\ calls' = [calls EXCEPT ![c] =
                                 [call EXCEPT !.pc = "writeFile.open",
                                              !.content = [file EXCEPT
                                                             !.metadata = call.metadata]]]
                  /\ UNCHANGED metadataCache
           ELSE /\ metadataCache' = MapSet(metadataCache, call.path, file.metadata)
                /\ calls' = [calls EXCEPT ![c] =
                               CASE call.op = "getKeyMetadata" ->
                                      Return(call, "ok", file.metadata)
                                 [] call.phase = "getKeyMetadata" ->
                                      StoreNew(call, file.metadata)
                                 [] OTHER -> UpdateOld(call, file.metadata)]
  /\ UNCHANGED <<files, uuids, ops>>
  /\ IoFixed

\* ensureKeyDirectory's mkdir completes for call c: storeKey chooses the
\* key id, encrypts, and calls writeFile.
FsMkdir(c) ==
  /\ calls[c].pc = "mkdir"
  /\ GivenKeyId(calls[c].metadata) \/ uuids < MaxUuids
  /\ \E s \in {FileStoreKey(IoProvider, calls[c].key, calls[c].metadata)} :
       /\ uuids' = s.st.uuids
       /\ calls' = [calls EXCEPT ![c] =
                      [@ EXCEPT !.pc = "writeFile.open", !.path = s.val,
                                !.content = s.st.files[s.val],
                                !.metadata = s.st.metadataCache[s.val]]]
  /\ UNCHANGED <<files, metadataCache, ops>>
  /\ IoFixed

\* writeFile of call c opens the key file.
FsWriteFileOpen(c) ==
  /\ calls[c].pc = "writeFile.open"
  /\ files' = MapSet(files, calls[c].path, Emptied)
  /\ calls' = [calls EXCEPT ![c].pc = "writeFile.write"]
  /\ UNCHANGED <<metadataCache, uuids, ops>>
  /\ IoFixed

\* write(2) takes only a part of the text; writeFile will write the rest.
FsWriteFileShort(c) ==
  /\ calls[c].pc = "writeFile.write"
  /\ files[calls[c].path] = Emptied
  /\ files' = MapSet(files, calls[c].path, Truncated)
  /\ UNCHANGED <<calls, metadataCache, uuids, ops>>
  /\ IoFixed

\* writeFile of call c has written the whole text and resolves: the call
\* runs to its next await.
FsWriteFileWrite(c) ==
  /\ calls[c].pc = "writeFile.write"
  /\ files' = MapSet(files, calls[c].path, calls[c].content)
  /\ \E call \in {calls[c]} :
       CASE call.phase = "getKey" ->
              /\ calls' = [calls EXCEPT ![c] =
                             AfterGetKey(call, metadataCache, call.out, call.val)]
              /\ UNCHANGED metadataCache
         [] call.phase = "storeKey" ->
              \E cache \in {MapSet(metadataCache, call.path, call.metadata)} :
                /\ metadataCache' = cache
                /\ calls' = [calls EXCEPT ![c] =
                               IF call.op = "storeKey" THEN Return(call, "ok", call.path)
                               ELSE IF Has(cache, call.keyId)
                                 THEN UpdateOld(call, cache[call.keyId])
                               ELSE [call EXCEPT !.phase = "getKeyMetadata2",
                                                 !.pc = "readFile", !.path = call.keyId]]
         [] OTHER ->
              /\ metadataCache' = MapSet(metadataCache, call.keyId, call.metadata)
              /\ calls' = [calls EXCEPT ![c] = Return(call, "ok", call.newKeyId)]
  /\ UNCHANGED <<uuids, ops>>
  /\ IoFixed

\* the key directory and the cache of the provider as the calls start: an
\* empty directory, or key "a" stored by this instance or by an earlier one
IoInit ==
  /\ kind = "file"
  /\ options = OptionsDefault
  /\ masterKey = "k1"
  /\ now = 1
  /\ env = EmptyMap /\ keyMap = EmptyMap /\ metadataMap = EmptyMap
  /\ \E s \in {FileStoreKey([files |-> EmptyMap, metadataCache |-> EmptyMap, uuids |-> 0,
                             masterKey |-> "k1"], <<"a", "hi", "lo">>, [keyId |-> "a"]).st} :
       \/ files = EmptyMap /\ metadataCache = EmptyMap
       \/ files = s.files /\ metadataCache = EmptyMap
       \/ files = s.files /\ metadataCache = s.metadataCache
  /\ vaultCache = EmptyMap
  /\ uuids = 0
  /\ ops = 0
  /\ ret = NoCall
  /\ ledger = EmptyMap
  /\ processEnv = EmptyMap
  /\ AppFresh

IoNext ==
  \/ \E op \in {"getKey", "getKeyMetadata", "rotateKey"} : Begin(op, "a", <<>>, EmptyMap)
  \/ \E metadata \in {EmptyMap, [keyId |-> "a"]} :
       Begin("storeKey", None, <<"b", "hi", "lo">>, metadata)
  \/ \E c \in DOMAIN calls : FsReadFile(c)
  \/ \E c \in DOMAIN calls : FsMkdir(c)
  \/ \E c \in DOMAIN calls : FsWriteFileOpen(c)
  \/ \E c \in DOMAIN calls : FsWriteFileShort(c)
  \/ \E c \in DOMAIN calls : FsWriteFileWrite(c)

IoSpec == IoInit /\ [][IoNext]_vars

\* C22: a getKey or getKeyMetadata that reads a key file while storeKey,
\* the access write-back of another getKey, or a rotation's metadata update
\* is writing that file observes the complete old or the complete new
\* content, never an empty or partially written file.
C22_FileWritesAreAtomic ==
  \A c \in DOMAIN calls :
    \A i \in DOMAIN calls[c].seen :
      calls[c].seen[i].by \in {"getKey", "getKeyMetadata", "getKeyMetadata2"}
        => ValidKeyFile(calls[c].seen[i].file)


\* ================================================ AuditLogger, in Node.js
\* (typeof window === 'undefined': source is 'server' and the file
\* destination is available)
MaxLogOps == 3

\* an option that is set to true
Flag(opts, name) == Has(opts, name) /\ opts[name] = TRUE

\* the AuditLogger constructor's this.options; an option whose value is
\* undefined is left out of the map
LoggerConstructorOptions(environ, opts) ==
  LET isProduction == OrElse(environ, "NODE_ENV", "") = "production"
      endpoint == IF Has(environ, "REMOTE_LOG_ENDPOINT")
                    THEN [remoteLogEndpoint |-> environ.REMOTE_LOG_ENDPOINT] ELSE EmptyMap
  IN Spread(Spread([enableConsoleLogging |-> ~isProduction,
                    enableFileLogging |-> isProduction,
                    logFilePath |-> OrElse(environ, "AUDIT_LOG_PATH", "./logs/audit.log"),
                    enableRemoteLogging |->
                      OrElse(environ, "ENABLE_REMOTE_LOGGING", "") = "true",
                    minLogLevel |-> "info",
                    includeStackTrace |-> ~isProduction,
                    logRotationSizeMB |-> 10,
                    encryptLogs |-> OrElse(environ, "ENCRYPT_AUDIT_LOGS", "") = "true"],
                   endpoint),
            opts)

\* Faulty variant of Redacted: the options are echoed as they are.
RedactedNot(opts) == opts

\* { ...opts, remoteLogApiKey: opts.remoteLogApiKey ? '[REDACTED]' : undefined }
Redacted(opts) ==
  IF OrElse(opts, "remoteLogApiKey", "") # ""
    THEN MapSet(opts, "remoteLogApiKey", "[REDACTED]")
    ELSE MapDelete(opts, "remoteLogApiKey")

NoSinks == [console |-> <<>>, file |-> <<>>, remote |-> <<>>]

\* Faulty variant of ProcessLogEntry: the entry goes to the console only.
ProcessLogEntryConsoleOnly(opts, to, logEntry) ==
  [to EXCEPT !.console = IF Flag(opts, "enableConsoleLogging") THEN Append(@, logEntry) ELSE @]

\* processLogEntry: console method, writeToLogFile, sendToRemoteEndpoint
ProcessLogEntry(opts, to, logEntry) ==
  [console |-> IF Flag(opts, "enableConsoleLogging") THEN Append(to.console, logEntry)
               ELSE to.console,
   file |-> IF Flag(opts, "enableFileLogging") THEN Append(to.file, logEntry) ELSE to.file,
   remote |-> IF Flag(opts, "enableRemoteLogging") /\ OrElse(opts, "remoteLogEndpoint", "") # ""
                THEN Append(to.remote, logEntry) ELSE to.remote]

\* log() with this.options = opts: what the destinations hold afterwards;
\* details EmptyMap stands for omitted details
LoggerLog(opts, to, level, eventType, operation, actor, target, result, details) ==
  IF LevelIndex(level) < LevelIndex(OrElse(opts, "minLogLevel", "info")) THEN to
  ELSE ProcessLogEntry(opts, to,
         [timestamp |-> ToISOString(now), level |-> level, eventType |-> eventType,
          operation |-> operation, actor |-> actor, target |-> target, result |-> result,
          details |-> IF Flag(opts, "includeStackTrace")
                         /\ level \in {"warning", "error", "critical"}
                        THEN Spread(details, [stackTrace |-> "Error at"])
                        ELSE details,
          sessionId |-> "session", source |-> "server"])

LogFixed ==
  UNCHANGED <<kind, options, masterKey, now, env, keyMap, metadataMap, files, metadataCache,
              vaultCache, uuids, ledger, singletonVars, calls, chainVars>>

\* what a call on the logger is remembered by: the level it logged at, the
\* options log() ran with, the options before the call, the destinations
\* before the call
LoggerRet(op, level, opts) ==
  [op |-> op, id |-> None, out |-> "ok", val |-> None,
   pre |-> [level |-> level, options |-> opts, oldOptions |-> loggerOptions,
            sinks |-> sinks]]

\* The application logs an event.
CallLog(level, details) ==
  /\ ops < MaxLogOps
  /\ sinks' = LoggerLog(loggerOptions, sinks, level, "admin_action", "Test operation",
                        "test-actor", "", "success", details)
  /\ ret' = LoggerRet("log", level, loggerOptions)
  /\ ops' = ops + 1
  /\ UNCHANGED loggerOptions
  /\ LogFixed

\* updateOptions (also reached through getInstance(options))
UpdateOptions(opts) ==
  /\ ops < MaxLogOps
  /\ \E new \in {Spread(loggerOptions, opts)} :
       /\ loggerOptions' = new
       /\ sinks' = LoggerLog(new, sinks, "info", "configuration_change",
                             "Audit logger configuration updated", "system", "audit_logger",
                             "success",
                             [oldOptions |-> Redacted(loggerOptions),
                              newOptions |-> Redacted(new)])
       /\ ret' = LoggerRet("updateOptions", "info", new)
  /\ ops' = ops + 1
  /\ LogFixed

\* process.env when the logger is constructed
LoggerEnvs ==
  { EmptyMap,
    [NODE_ENV |-> "production", ENABLE_REMOTE_LOGGING |-> "true"],
    [NODE_ENV |-> "production", ENABLE_REMOTE_LOGGING |-> "true",
     REMOTE_LOG_ENDPOINT |-> "https://logs"],
    [ENABLE_REMOTE_LOGGING |-> "true", REMOTE_LOG_ENDPOINT |-> "https://logs"] }

ApiKeys == {"tok1", "tok2"}

\* AuditLoggerOptions objects given to getInstance and updateOptions
LoggerOptionInputs ==
  { EmptyMap,
    [remoteLogApiKey |-> "tok1"],
    [remoteLogApiKey |-> "tok2", remoteLogEndpoint |-> "https://logs"],
    [remoteLogApiKey |-> ""],
    [enableRemoteLogging |-> TRUE],
    [enableConsoleLogging |-> FALSE, enableFileLogging |-> TRUE,
     logFilePath |-> "/tmp/audit.log", minLogLevel |-> "error"],
    [minLogLevel |-> "debug", remoteLogEndpoint |-> ""] }

\* the logger after getInstance(opts) has constructed it: the constructor
\* logs 'Audit logger initialized'
LogInit ==
  /\ kind = "env"
  /\ options = OptionsDefault
  /\ masterKey = "k1"
  /\ now = 1
  /\ env = EmptyMap /\ keyMap = EmptyMap /\ metadataMap = EmptyMap
  /\ files = EmptyMap
  /\ metadataCache = EmptyMap
  /\ vaultCache = EmptyMap
  /\ uuids = 0
  /\ ops = 0
  /\ ledger = EmptyMap
  /\ config = FactoryConfigDefault
  /\ providers = EmptyMap
  /\ constructed = <<>>
  /\ keyTypeProviders = KeyTypeProvidersDefault
  /\ auditLog = <<>>
  /\ service = ServiceDefault
  /\ calls = <<>>
  /\ owner = None /\ paused = FALSE /\ fingerprints = EmptyMap /\ revocations = EmptyMap
  /\ processEnv \in LoggerEnvs
  /\ \E opts \in LoggerOptionInputs :
       /\ loggerOptions = LoggerConstructorOptions(processEnv, opts)
       /\ sinks = LoggerLog(loggerOptions, NoSinks, "info", "configuration_change",
                            "Audit logger initialized", "system", "audit_logger", "success",
                            [options |-> Redacted(loggerOptions)])
       /\ ret = [op |-> "constructor", id |-> None, out |-> "ok", val |-> None,
                 pre |-> [level |-> "info", options |-> loggerOptions,
                          oldOptions |-> opts, sinks |-> NoSinks]]

LogNext ==
  \/ \E level \in {LogLevels[i] : i \in DOMAIN LogLevels} : CallLog(level, EmptyMap)
  \/ \E opts \in LoggerOptionInputs \ {EmptyMap} : UpdateOptions(opts)

LogSpec == LogInit /\ [][LogNext]_vars

\* the entries the last log call has added to the destination
Received(sink) == SubSeq(sinks[sink], Len(ret.pre.sinks[sink]) + 1, Len(sinks[sink]))

\* the last log call ran at a level below the minimum
BelowMinLogLevel ==
  LevelIndex(ret.pre.level) < LevelIndex(OrElse(ret.pre.options, "minLogLevel", "info"))

\* the last log call has left its one entry with exactly the destinations
\* in the set
DispatchedTo(enabled) ==
  /\ \A sink \in enabled : Len(Received(sink)) = 1 /\ Received(sink)[1].level = ret.pre.level
  /\ \A sink \in {"console", "file", "remote"} \ enabled : Received(sink) = <<>>
  /\ \A s1 \in enabled, s2 \in enabled : Received(s1) = Received(s2)

Echoed(logEntry) ==
  {logEntry.details[k] : k \in DOMAIN logEntry.details \cap {"options", "oldOptions", "newOptions"}}

AllReceived ==
  UNION {{sinks[sink][i] : i \in DOMAIN sinks[sink]} : sink \in {"console", "file", "remote"}}

\* C29: in every entry the AuditLogger emits about its own configuration,
\* on construction and on each updateOptions, the echoed previous and new
\* options carry '[REDACTED]' in place of remoteLogApiKey whenever a key is
\* set, and the raw API key appears in no emitted entry.
C29_ApiKeyIsRedacted ==
  /\ \A logEntry \in AllReceived :
       \A o \in Echoed(logEntry) :
         /\ Has(o, "remoteLogApiKey") => o.remoteLogApiKey = "[REDACTED]"
         /\ \A f \in DOMAIN o \cap {"logFilePath", "remoteLogEndpoint", "minLogLevel"} :
              o[f] \notin ApiKeys
  /\ \A logEntry \in AllReceived :
       {logEntry.operation, logEntry.actor, logEntry.target, logEntry.result,
        logEntry.sessionId, logEntry.source} \cap ApiKeys = {}
  /\ \A sink \in {"console", "file", "remote"} :
       \A i \in DOMAIN Received(sink) :
         /\ (ret.op = "updateOptions"
               /\ OrElse(ret.pre.oldOptions, "remoteLogApiKey", "") # "")
              => Received(sink)[i].details.oldOptions.remoteLogApiKey = "[REDACTED]"
         /\ (ret.op = "updateOptions" /\ OrElse(ret.pre.options, "remoteLogApiKey", "") # "")
              => Received(sink)[i].details.newOptions.remoteLogApiKey = "[REDACTED]"
         /\ (ret.op = "constructor" /\ OrElse(ret.pre.options, "remoteLogApiKey", "") # "")
              => Received(sink)[i].details.options.remoteLogApiKey = "[REDACTED]"

\* updateOptions has replaced one API key by another and its entry, with
\* both placeholders, has reached a destination
C29_Witness ==
  /\ ret.op = "updateOptions"
  /\ OrElse(ret.pre.oldOptions, "remoteLogApiKey", "") = "tok1"
  /\ OrElse(ret.pre.options, "remoteLogApiKey", "") = "tok2"
  /\ \E sink \in {"console", "file", "remote"} :
       /\ Len(Received(sink)) = 1
       /\ Received(sink)[1].details.oldOptions.remoteLogApiKey = "[REDACTED]"
       /\ Received(sink)[1].details.newOptions.remoteLogApiKey = "[REDACTED]"


\* ========================================== AIFingerprint, the contract
\* One action per transaction; a transaction that reverts leaves the
\* storage as it was.  block.timestamp is the clock `now`.  ledger keeps,
\* per fingerprint hash, the msg.sender of the registration that succeeded.
MaxTxs == 4

Accounts == {"0xA1", "0xA2"}

ZeroAddress == "0x0"

FingerprintHashes == {"0xf1", "0xf2"}

\* (id, name, provider, version) arguments of registerFingerprint
AgentInputs ==
  { [id |-> "agent-1", name |-> "n", provider |-> "p", version |-> "1"],
    [id |-> "agent-2", name |-> "m", provider |-> "p", version |-> "2"] }

\* fingerprints[h].exists and revocations[h].revoked; a mapping entry never
\* written reads as all zeroes
FingerprintExists(h) == Has(fingerprints, h) /\ fingerprints[h].exists

IsRevoked(h) == Has(revocations, h) /\ revocations[h].revoked

\* Faulty variant of AlreadyRegistered: the require is missing.
AlreadyRegisteredUnchecked(h) == FALSE

\* require(!fingerprints[fingerprintHash].exists, ...) fails
AlreadyRegistered(h) == FingerprintExists(h)

\* Faulty variant of NotRegistrant: anyone may revoke.
NotRegistrantUnchecked(h, sender) == FALSE

\* require(fingerprints[fingerprintHash].registeredBy == msg.sender, ...) fails
NotRegistrant(h, sender) == fingerprints[h].registeredBy # sender

\* Faulty variant of EnforcedPause: the modifier is missing.
EnforcedPauseUnchecked == FALSE

\* modifier whenNotPaused fails
EnforcedPause == paused

\* Faulty variant of OwnableUnauthorizedAccount: the modifier is missing.
OwnableUnauthorizedAccountUnchecked(sender) == FALSE

\* modifier onlyOwner fails
OwnableUnauthorizedAccount(sender) == owner # sender

\* the last transaction: function, fingerprint hash, outcome, and the
\* sender and storage it started from
Tx(op, h, sender, out) ==
  /\ ops < MaxTxs
  /\ ops' = ops + 1
  /\ ret' = [op |-> op, id |-> h, out |-> out, val |-> None,
             pre |-> [sender |-> sender, owner |-> owner, paused |-> paused,
                      fingerprints |-> fingerprints, revocations |-> revocations]]
  /\ UNCHANGED <<kind, options, masterKey, now, env, keyMap, metadataMap, files,
                 metadataCache, vaultCache, uuids, singletonVars, calls, loggerVars>>

Reverts(op, h, sender, reason) ==
  /\ Tx(op, h, sender, reason)
  /\ UNCHANGED <<chainVars, ledger>>

Pause(sender) ==
  IF OwnableUnauthorizedAccount(sender)
    THEN Reverts("pause", None, sender, "OwnableUnauthorizedAccount")
  ELSE IF paused THEN Reverts("pause", None, sender, "EnforcedPause")
  ELSE /\ paused' = TRUE
       /\ Tx("pause", None, sender, "ok")
       /\ UNCHANGED <<owner, fingerprints, revocations, ledger>>

Unpause(sender) ==
  IF OwnableUnauthorizedAccount(sender)
    THEN Reverts("unpause", None, sender, "OwnableUnauthorizedAccount")
  ELSE IF ~paused THEN Reverts("unpause", None, sender, "ExpectedPause")
  ELSE /\ paused' = FALSE
       /\ Tx("unpause", None, sender, "ok")
       /\ UNCHANGED <<owner, fingerprints, revocations, ledger>>

\* Ownable.transferOwnership and renounceOwnership, inherited
TransferOwnership(sender, newOwner) ==
  IF OwnableUnauthorizedAccount(sender)
    THEN Reverts("transferOwnership", None, sender, "OwnableUnauthorizedAccount")
  ELSE IF newOwner = ZeroAddress
    THEN Reverts("transferOwnership", None, sender, "OwnableInvalidOwner")
  ELSE /\ owner' = newOwner
       /\ Tx("transferOwnership", None, sender, "ok")
       /\ UNCHANGED <<paused, fingerprints, revocations, ledger>>

RenounceOwnership(sender) ==
  IF OwnableUnauthorizedAccount(sender)
    THEN Reverts("renounceOwnership", None, sender, "OwnableUnauthorizedAccount")
  ELSE /\ owner' = ZeroAddress
       /\ Tx("renounceOwnership", None, sender, "ok")
       /\ UNCHANGED <<paused, fingerprints, revocations, ledger>>

ContractRegisterFingerprint(sender, agent, h) ==
  IF EnforcedPause THEN Reverts("registerFingerprint", h, sender, "EnforcedPause")
  ELSE IF AlreadyRegistered(h)
    THEN Reverts("registerFingerprint", h, sender, "Fingerprint already registered")
  ELSE /\ fingerprints' =
            MapSet(fingerprints, h,
                   [id |-> agent.id, name |-> agent.name, provider |-> agent.provider,
                    version |-> agent.version, registeredBy |-> sender, createdAt |-> now,
                    exists |-> TRUE])
       /\ ledger' = IF Has(ledger, h) THEN ledger ELSE MapSet(ledger, h, sender)
       /\ Tx("registerFingerprint", h, sender, "ok")
       /\ UNCHANGED <<owner, paused, revocations>>

\* _revokeFingerprint
RevokeInternal(h, revoker) ==
  revocations' = MapSet(revocations, h,
                        [revoked |-> TRUE, revokedAt |-> now, revokedBy |-> revoker])

ContractRevokeFingerprint(sender, h) ==
  IF EnforcedPause THEN Reverts("revokeFingerprint", h, sender, "EnforcedPause")
  ELSE IF ~FingerprintExists(h)
    THEN Reverts("revokeFingerprint", h, sender, "Fingerprint does not exist")
  ELSE IF NotRegistrant(h, sender)
    THEN Reverts("revokeFingerprint", h, sender,
                 "Only the original registrant can revoke the fingerprint")
  ELSE IF IsRevoked(h)
    THEN Reverts("revokeFingerprint", h, sender, "Fingerprint already revoked")
  ELSE /\ RevokeInternal(h, sender)
       /\ Tx("revokeFingerprint", h, sender, "ok")
       /\ UNCHANGED <<owner, paused, fingerprints, ledger>>

AdminRevokeFingerprint(sender, h) ==
  IF OwnableUnauthorizedAccount(sender)
    THEN Reverts("adminRevokeFingerprint", h, sender, "OwnableUnauthorizedAccount")
  ELSE IF EnforcedPause THEN Reverts("adminRevokeFingerprint", h, sender, "EnforcedPause")
  ELSE IF ~FingerprintExists(h)
    THEN Reverts("adminRevokeFingerprint", h, sender, "Fingerprint does not exist")
  ELSE IF IsRevoked(h)
    THEN Reverts("adminRevokeFingerprint", h, sender, "Fingerprint already revoked")
  ELSE /\ RevokeInternal(h, sender)
       /\ Tx("adminRevokeFingerprint", h, sender, "ok")
       /\ UNCHANGED <<owner, paused, fingerprints, ledger>>

TransferFingerprintOwnership(sender, h, newOwner) ==
  IF OwnableUnauthorizedAccount(sender)
    THEN Reverts("transferFingerprintOwnership", h, sender, "OwnableUnauthorizedAccount")
  ELSE IF EnforcedPause
    THEN Reverts("transferFingerprintOwnership", h, sender, "EnforcedPause")
  ELSE IF ~FingerprintExists(h)
    THEN Reverts("transferFingerprintOwnership", h, sender, "Fingerprint does not exist")
  ELSE IF newOwner = ZeroAddress
    THEN Reverts("transferFingerprintOwnership", h, sender,
                 "New owner cannot be the zero address")
  ELSE IF fingerprints[h].registeredBy = newOwner
    THEN Reverts("transferFingerprintOwnership", h, sender,
                 "New owner must be different from current owner")
  ELSE /\ fingerprints' = [fingerprints EXCEPT ![h].registeredBy = newOwner]
       /\ Tx("transferFingerprintOwnership", h, sender, "ok")
       /\ UNCHANGED <<owner, paused, revocations, ledger>>

\* a block with a later timestamp
NextBlock ==
  /\ now < MaxTime
  /\ now' = now + 1
  /\ UNCHANGED <<kind, options, masterKey, env, keyMap, metadataMap, files, metadataCache,
                 vaultCache, uuids, ops, ret, ledger, appVars>>

\* the contract as deployed by account 0xA1
ChainInit ==
  /\ kind = "env"
  /\ options = OptionsDefault
  /\ masterKey = "k1"
  /\ now = 1
  /\ env = EmptyMap /\ keyMap = EmptyMap /\ metadataMap = EmptyMap
  /\ files = EmptyMap
  /\ metadataCache = EmptyMap
  /\ vaultCache = EmptyMap
  /\ uuids = 0
  /\ ops = 0
  /\ ret = NoCall
  /\ ledger = EmptyMap
  /\ processEnv = EmptyMap
  /\ config = FactoryConfigDefault
  /\ providers = EmptyMap
  /\ constructed = <<>>
  /\ keyTypeProviders = KeyTypeProvidersDefault
  /\ auditLog = <<>>
  /\ service = ServiceDefault
  /\ calls = <<>>
  /\ loggerOptions = EmptyMap /\ sinks = EmptyMap
  /\ owner = "0xA1"
  /\ paused = FALSE
  /\ fingerprints = EmptyMap
  /\ revocations = EmptyMap

ChainNext ==
  \/ \E sender \in Accounts : Pause(sender)
  \/ \E sender \in Accounts : Unpause(sender)
  \/ \E sender \in Accounts, newOwner \in Accounts \cup {ZeroAddress} :
       TransferOwnership(sender, newOwner)
  \/ \E sender \in Accounts : RenounceOwnership(sender)
  \/ \E sender \in Accounts, agent \in AgentInputs, h \in FingerprintHashes :
       ContractRegisterFingerprint(sender, agent, h)
  \/ \E sender \in Accounts, h \in FingerprintHashes : ContractRevokeFingerprint(sender, h)
  \/ \E sender \in Accounts, h \in FingerprintHashes : AdminRevokeFingerprint(sender, h)
  \/ \E sender \in Accounts, h \in FingerprintHashes,
        newOwner \in Accounts \cup {ZeroAddress} :
       TransferFingerprintOwnership(sender, h, newOwner)
  \/ NextBlock

ChainSpec == ChainInit /\ [][ChainNext]_vars


\* ------------------------------------------------ claims on the contract
\* C25: the registry is append-only: once a hash is registered no
\* transaction changes its id, name, provider, version, createdAt or exists
\* flag, and every later registerFingerprint of it reverts; once a hash is
\* revoked its revoked flag stays true and revokedAt and revokedBy never
\* change.
C25_RegistryIsAppendOnly ==
  [][/\ \A h \in DOMAIN fingerprints :
          fingerprints[h].exists =>
            /\ h \in DOMAIN fingerprints'
            /\ \A f \in {"id", "name", "provider", "version", "createdAt", "exists"} :
                 fingerprints'[h][f] = fingerprints[h][f]
     /\ \A h \in DOMAIN revocations :
          revocations[h].revoked =>
            h \in DOMAIN revocations' /\ revocations'[h] = revocations[h]
     /\ (ops' # ops /\ ret'.op = "registerFingerprint" /\ FingerprintExists(ret'.id))
          => ret'.out = "Fingerprint already registered" \/ ret'.out = "EnforcedPause"]_vars

\* a registered hash was revoked and handed to another account, and a new
\* registration of it was refused
C25_Witness ==
  /\ ret.op = "registerFingerprint" /\ ret.out = "Fingerprint already registered"
  /\ IsRevoked(ret.id)
  /\ fingerprints[ret.id].registeredBy # ledger[ret.id]

C27_PauseGating ==
  ret.op # "none" =>
    /\ (ret.op \in {"pause", "unpause"} /\ ret.pre.sender # ret.pre.owner)
         => ret.out # "ok" /\ paused = ret.pre.paused
    /\ paused # ret.pre.paused
         => ret.op \in {"pause", "unpause"} /\ ret.pre.sender = ret.pre.owner
    /\ (ret.pre.paused
          /\ ret.op \in {"registerFingerprint", "revokeFingerprint",
                         "adminRevokeFingerprint", "transferFingerprintOwnership"})
         => /\ ret.out # "ok"
            /\ fingerprints = ret.pre.fingerprints
            /\ revocations = ret.pre.revocations

\* while paused the registrant's revocation of its own hash was refused
C27_Witness ==
  /\ ret.op = "revokeFingerprint" /\ ret.out = "EnforcedPause" /\ paused
  /\ FingerprintExists(ret.id) /\ ~IsRevoked(ret.id)
  /\ fingerprints[ret.id].registeredBy = ret.pre.sender


\* ================================ EnvKeyProvider and the live environment
\* keyPrefix of the instance (the constructor's default)
KeyPrefix == "KEY_"

StartsWith(name, prefix) ==
  Len(name) >= Len(prefix) /\ SubSeq(name, 1, Len(prefix)) = prefix

\* process.env[`${this.keyPrefix}${keyId}`] names the variable `name`
KeyIdOf(name) == SubSeq(name, Len(KeyPrefix) + 1, Len(name))

\* Something in the process assigns process.env[name] while the provider
\* exists.  env is process.env under the key prefix, by key id.
SetEnvironmentVariable(name, value) ==
  /\ ops < MaxOps /\ ~Hung
  /\ IF StartsWith(name, KeyPrefix)
       THEN /\ env' = MapSet(env, KeyIdOf(name), value)
            /\ ledger' = Touch(ledger, KeyIdOf(name))
            /\ UNCHANGED processEnv
       ELSE /\ processEnv' = MapSet(processEnv, name, value)
            /\ UNCHANGED <<env, ledger>>
  /\ ret' = NoCall
  /\ ops' = ops + 1
  /\ UNCHANGED <<kind, options, masterKey, now, keyMap, metadataMap, files, metadataCache,
                 vaultCache, uuids, config, providers, constructed, keyTypeProviders,
                 auditLog, service, otherVars>>

EnvInit == Init /\ kind = "env"

EnvNext ==
  \/ \E keyId \in KnownIds : CallGetKey(keyId)
  \/ \E key \in Secrets, metadata \in MetaInputs : CallStoreKey(key, metadata)
  \/ \E keyId \in KnownIds : CallDeleteKey(keyId)
  \/ \E keyId \in KnownIds : CallGetKeyMetadata(keyId)
  \/ \E name \in {"KEY_a", "a", "XKEY_a"}, value \in {<<"e", "n", "v">>, <<>>} :
       SetEnvironmentVariable(name, value)
  \/ Tick

EnvSpec == EnvInit /\ [][EnvNext]_vars

ScopedKeyTypes == {"wallet", "signing"}

ScopedKeyIds == {"a", "b"}

ScopeNext ==
  \/ \E keyType \in ScopedKeyTypes, key \in AppSecrets, metadata \in AppMetaInputs :
       KeyManagerStoreKey(keyType, key, metadata)
  \/ \E keyType \in ScopedKeyTypes, keyId \in ScopedKeyIds : KeyManagerGetKey(keyType, keyId)
  \/ \E keyType \in ScopedKeyTypes, keyId \in ScopedKeyIds : KeyManagerDeleteKey(keyType, keyId)
  \/ \E keyType \in ScopedKeyTypes, keyId \in ScopedKeyIds : KeyManagerRotateKey(keyType, keyId)
  \/ \E keyType \in ScopedKeyTypes, keyId \in ScopedKeyIds :
       KeyManagerGetKeyMetadata(keyType, keyId)

ScopeSpec == AppInit /\ [][ScopeNext]_vars

\* the key keyId of the backend bound to keyType carries the tag of another
\* key type
TaggedOtherwise(keyType, keyId) ==
  \E md \in BackendMetadata(keyTypeProviders[keyType]) :
    md.keyId = keyId /\ ~OfKeyType(keyType, md)

\* C30: KeyManager.getKey, rotateKey, deleteKey and getKeyMetadata, called
\* with a key type, only succeed on a key whose tags.keyType equals that type
\* or is absent; a key tagged with another type of the same backend is never
\* returned, rotated or removed through the wrong type.
C30_KeyManagerTypeScoping ==
  /\ \A keyType \in ScopedKeyTypes, keyId \in ScopedKeyIds :
       TaggedOtherwise(keyType, keyId) =>
         \A method \in {"getKey", "rotateKey", "deleteKey", "getKeyMetadata"} :
           \E k \in {KeyManagerMethod(World, method, keyType, keyId, <<>>, EmptyMap)} :
             \/ k.out # "ok"
             \/ method = "deleteKey" /\ k.val = FALSE
  /\ (ThroughKeyManager /\ ret.op = "getKeyMetadata" /\ ret.out = "ok")
       => OfKeyType(ret.pre.keyType, ret.val)

\* ======================================== reads that fail, on one provider
\* accessCount and lastAccessed as stored for keyId (0 when absent)
StoredAccess(st, keyId) ==
  LET md == StoredMetadata(st, keyId)
  IN [count |-> IF Has(md, "accessCount") THEN md.accessCount ELSE 0,
      last |-> IF Has(md, "lastAccessed") THEN md.lastAccessed ELSE 0]

GetKeyFailures == {"NotFound", "Expired", "DecryptionFailure"}

\* C31: a getKey call that fails (not found, expired, decryption failure)
\* leaves the key's stored accessCount and lastAccessed, its key file and
\* the metadata cache of the provider as they were, on EnvKeyProvider and
\* EncryptedFileKeyProvider.
C31_FailedGetKeyLeavesKeyUntouched ==
  [][ (Local /\ ret'.op = "getKey" /\ ret'.out \in GetKeyFailures) =>
        /\ \A keyId \in KnownIds :
             StoredAccess(ProviderState, keyId)' = StoredAccess(ProviderState, keyId)
        /\ files' = files
        /\ metadataCache' = metadataCache
    ]_vars

\* =============================== calls in flight on one key (IoSpec)
\* accessCount in the key file of keyId (0 when the file has none)
FileAccessCount(keyId) ==
  IF Has(files, keyId) /\ ValidKeyFile(files[keyId]) /\ Has(files[keyId].metadata, "accessCount")
    THEN files[keyId].metadata.accessCount
    ELSE 0

\* both calls are getKey("a"), both have returned the key, and both had read
\* the key file before either wrote it back
OverlappedReads ==
  /\ Len(calls) = 2
  /\ \A c \in DOMAIN calls :
       /\ calls[c].op = "getKey" /\ calls[c].pc = "done" /\ calls[c].out = "ok"
       /\ Len(calls[c].seen) = 1
  /\ calls[1].seen[1].file = calls[2].seen[1].file

\* C32: with auditAccess on, two getKey calls on the same key that overlap
\* at their file operations (both read the file before either writes it
\* back) are both counted: when both have completed the stored accessCount
\* has grown by 2.
C32_OverlappingReadsAreBothCounted ==
  OverlappedReads =>
    \A keyId \in {calls[1].keyId} :
      /\ options.auditAccess
      /\ FileAccessCount(keyId) = 2
      /\ Has(metadataCache, keyId) /\ metadataCache[keyId].accessCount = 2

\* ------------------------------------------- deleteKey among calls in flight
\* The application calls deleteKey(keyId) and does not wait for it.
BeginDeleteKey(keyId) ==
  /\ Len(calls) < MaxCalls
  /\ calls' = Append(calls, [NewCall("deleteKey", keyId, <<>>, EmptyMap) EXCEPT !.pc = "unlink"])
  /\ ops' = ops + 1
  /\ UNCHANGED <<files, metadataCache, uuids>>
  /\ IoFixed

\* fs.unlink completes for call c: the name is removed (ENOENT when there is
\* none) and deleteKey returns.  A writeFile that has the file open keeps
\* its descriptor: what it writes goes to the file that no longer has a name.
FsUnlink(c) ==
  /\ calls[c].pc = "unlink"
  /\ IF Has(files, calls[c].keyId)
       THEN /\ files' = MapDelete(files, calls[c].keyId)
            /\ metadataCache' = MapDelete(metadataCache, calls[c].keyId)
            /\ calls' = [d \in DOMAIN calls |->
                           IF d = c THEN Return(calls[c], "ok", TRUE)
                           ELSE IF calls[d].pc = "writeFile.write" /\ calls[d].path = calls[c].keyId
                             THEN [calls[d] EXCEPT !.pc = "writeFile.unlinked"]
                           ELSE calls[d]]
       ELSE /\ calls' = [calls EXCEPT ![c] = Return(@, "ok", FALSE)]
            /\ UNCHANGED <<files, metadataCache>>
  /\ UNCHANGED <<uuids, ops>>
  /\ IoFixed

\* writeFile of call c, whose file was unlinked while open, resolves: the
\* directory does not change and the call runs to its next await (the access
\* write-back of getKey, or updateKeyMetadata, which then sets the cache).
FsWriteFileUnlinked(c) ==
  /\ calls[c].pc = "writeFile.unlinked"
  /\ \E call \in {calls[c]} :
       IF call.phase = "getKey"
         THEN /\ calls' = [calls EXCEPT ![c] =
                             AfterGetKey(call, metadataCache, call.out, call.val)]
              /\ UNCHANGED metadataCache
         ELSE /\ metadataCache' = MapSet(metadataCache, call.path, call.metadata)
              /\ calls' = [calls EXCEPT ![c] =
                             IF call.phase = "storeKey" THEN Return(call, "ok", call.path)
                             ELSE Return(call, "ok", call.newKeyId)]
  /\ UNCHANGED <<files, uuids, ops>>
  /\ IoFixed

DeleteNext ==
  \/ \E op \in {"getKey", "getKeyMetadata", "rotateKey"} : Begin(op, "a", <<>>, EmptyMap)
  \/ BeginDeleteKey("a")
  \/ \E c \in DOMAIN calls : FsReadFile(c)
  \/ \E c \in DOMAIN calls : FsMkdir(c)
  \/ \E c \in DOMAIN calls : FsWriteFileOpen(c)
  \/ \E c \in DOMAIN calls : FsWriteFileShort(c)
  \/ \E c \in DOMAIN calls : FsWriteFileWrite(c)
  \/ \E c \in DOMAIN calls : FsUnlink(c)
  \/ \E c \in DOMAIN calls : FsWriteFileUnlinked(c)

DeleteSpec == IoInit /\ [][DeleteNext]_vars

\* deleteKey(keyId) has returned true
Deleted(keyId) ==
  \E c \in DOMAIN calls :
    /\ calls[c].op = "deleteKey" /\ calls[c].keyId = keyId
    /\ calls[c].pc = "done" /\ calls[c].val = TRUE

\* C33: once deleteKey(id) has returned true and no storeKey for id follows,
\* the key stays deleted, also when a getKey(id) or rotateKey(id) was in
\* flight while the deletion ran: there is no key file for id (getKey and
\* getKeyMetadata fail with NotFound, listKeys omits id) and no cache entry.
C33_DeletedKeyStaysDeleted ==
  \A keyId \in {"a"} :
    Deleted(keyId) =>
      /\ ~Has(files, keyId)
      /\ ~Has(metadataCache, keyId)

\* ==================================== the application across a restart
\* The process ends and a new one starts with the same (empty) environment
\* and no configuration call: KeyProviderFactory.instance and
\* KeyManager.instance are new, no provider is built, the key directory is
\* what the old process left.  constructed and auditLog are history.
ProcessRestart ==
  /\ ops < MaxOps
  /\ config' = FactoryConfigDefault
  /\ providers' = EmptyMap
  /\ keyTypeProviders' = KeyTypeProvidersDefault
  /\ service' = ServiceDefault
  /\ keyMap' = EmptyMap /\ metadataMap' = EmptyMap
  /\ metadataCache' = EmptyMap /\ vaultCache' = EmptyMap
  /\ ret' = NoCall
  /\ ops' = ops + 1
  /\ UNCHANGED <<kind, options, masterKey, now, env, files, uuids, ledger, processEnv,
                 constructed, auditLog, otherVars>>

\* neither password nor raw key: process.env is empty and initialize is not
\* called
ZeroConfigInit == AppInit /\ processEnv = EmptyMap /\ config = FactoryConfigDefault

ZeroConfigNext ==
  \/ \E key \in AppSecrets, metadata \in AppMetaInputs :
       KeyManagerStoreKey("wallet", key, metadata)
  \/ \E keyId \in ScopedKeyIds : KeyManagerGetKey("wallet", keyId)
  \/ \E keyId \in ScopedKeyIds : KeyManagerGetKeyMetadata("wallet", keyId)
  \/ \E keyId \in ScopedKeyIds : KeyManagerDeleteKey("wallet", keyId)
  \/ ProcessRestart

ZeroConfigSpec == ZeroConfigInit /\ [][ZeroConfigNext]_vars

\* C34: with neither password nor raw key configured, a key stored through
\* the EncryptedFileKeyProvider the factory built is still returned by
\* getKey through the provider a later factory instance builds with the same
\* empty configuration over the same key directory: getKey on a stored key
\* returns its secret, in the process that stored it and in every later one.
C34_GeneratedMasterKeySurvivesRestart ==
  (/\ ret.op = "getKey" /\ ThroughKeyManager /\ ret.pre.type = "encrypted-file"
   /\ Has(files, ret.id) /\ ValidKeyFile(files[ret.id])) =>
    /\ ret.out = "ok"
    /\ ret.val = Decrypt(files[ret.id].blob)

\* ================================== the metadata cache and the key files
\* every call made so far has returned
AllReturned == calls # <<>> /\ \A c \in DOMAIN calls : calls[c].pc = "done"

\* C35: for one EncryptedFileKeyProvider that is the only writer of its key
\* directory, after every completed storeKey, getKey, rotateKey or
\* getKeyMetadata call each entry of the metadata cache equals the metadata
\* stored in that key's file, and the cache has no entry for an id whose
\* file does not exist.
C35_CacheMirrorsKeyFiles ==
  AllReturned =>
    \A keyId \in DOMAIN metadataCache :
      /\ Has(files, keyId)
      /\ ValidKeyFile(files[keyId])
      /\ metadataCache[keyId] = files[keyId].metadata

\* ============================================ the revocation records
\* C38: in every reachable state of AIFingerprint a hash is marked revoked
\* only if it is registered, and the revokedBy recorded for it is the
\* account that was the fingerprint's registeredBy, or the account that was
\* the contract owner, at the moment of the revocation.
C38_RevocationsAreOfRegisteredHashes ==
  [][ \A h \in FingerprintHashes :
        /\ IsRevoked(h)' => FingerprintExists(h)'
        /\ (IsRevoked(h)' /\ ~IsRevoked(h)) =>
             /\ FingerprintExists(h)
             /\ revocations'[h].revokedBy \in {fingerprints[h].registeredBy, owner}
             /\ revocations'[h].revokedBy = ret'.pre.sender
    ]_vars

\* the contract owner has revoked a hash that is registered to another
\* account
C38_Witness ==
  /\ ret.op = "adminRevokeFingerprint" /\ ret.out = "ok"
  /\ IsRevoked(ret.id) /\ FingerprintExists(ret.id)
  /\ revocations[ret.id].revokedBy = ret.pre.owner
  /\ revocations[ret.id].revokedBy # fingerprints[ret.id].registeredBy

\* ===================================== reading the registry: the contract's
\* view functions and SecureBlockchainService.verifyFingerprint / isRevoked
\* fingerprints[h] and revocations[h]; an entry never written reads as zeroes
AgentDataOf(h) ==
  IF Has(fingerprints, h) THEN fingerprints[h]
  ELSE [id |-> "", name |-> "", provider |-> "", version |-> "", registeredBy |-> ZeroAddress,
        createdAt |-> 0, exists |-> FALSE]

RevocationDataOf(h) ==
  IF Has(revocations, h) THEN revocations[h]
  ELSE [revoked |-> FALSE, revokedAt |-> 0, revokedBy |-> ZeroAddress]

\* AIFingerprint.verifyFingerprint
ContractVerifyFingerprint(h) ==
  [isVerified |-> AgentDataOf(h).exists, id |-> AgentDataOf(h).id, name |-> AgentDataOf(h).name,
   provider |-> AgentDataOf(h).provider, version |-> AgentDataOf(h).version,
   createdAt |-> AgentDataOf(h).createdAt]

\* AIFingerprint.isRevoked
ContractIsRevoked(h) == RevocationDataOf(h)

\* AIFingerprint.verifyFingerprintExtended
VerifyFingerprintExtended(h) ==
  [isVerified |-> AgentDataOf(h).exists /\ ~RevocationDataOf(h).revoked,
   id |-> AgentDataOf(h).id, name |-> AgentDataOf(h).name,
   provider |-> AgentDataOf(h).provider, version |-> AgentDataOf(h).version,
   createdAt |-> AgentDataOf(h).createdAt,
   revoked |-> RevocationDataOf(h).revoked, revokedAt |-> RevocationDataOf(h).revokedAt]

NotConnected == [out |-> "NotConnected", val |-> Null]

\* SecureBlockchainService.isRevoked on the service svc; supportsRevocation
\* is what the probe of the deployed contract answers
ServiceIsRevoked(svc, h, supportsRevocation) ==
  IF ~svc.isConnected THEN NotConnected
  ELSE IF ~supportsRevocation THEN [out |-> "ok", val |-> Null]
  ELSE IF ContractIsRevoked(h).revoked THEN [out |-> "ok", val |-> ContractIsRevoked(h)]
  ELSE [out |-> "ok", val |-> Null]

\* SecureBlockchainService.verifyFingerprint on the service svc: the
\* extended read when the contract has it, else the basic read followed by
\* isRevoked
VerifyFingerprint(svc, h, supportsRevocation, supportsExtendedVerification) ==
  IF ~svc.isConnected THEN NotConnected
  ELSE IF supportsExtendedVerification
    THEN LET r == VerifyFingerprintExtended(h)
         IN IF ~r.isVerified THEN [out |-> "ok", val |-> Null]
            ELSE [out |-> "ok",
                  val |-> [id |-> r.id, name |-> r.name, provider |-> r.provider,
                           version |-> r.version, fingerprintHash |-> h,
                           createdAt |-> r.createdAt, revoked |-> r.revoked,
                           revokedAt |-> r.revokedAt]]
  ELSE LET r == ContractVerifyFingerprint(h)
           agentData == [id |-> r.id, name |-> r.name, provider |-> r.provider,
                         version |-> r.version, fingerprintHash |-> h,
                         createdAt |-> r.createdAt]
           revocationData == ServiceIsRevoked(svc, h, supportsRevocation).val
       IN IF ~r.isVerified THEN [out |-> "ok", val |-> Null]
          ELSE IF supportsRevocation /\ revocationData # Null
            THEN [out |-> "ok", val |-> Spread(agentData, revocationData)]
          ELSE [out |-> "ok", val |-> agentData]

\* C36: verifyFingerprint returns the same result for a given on-chain state
\* whichever contract read it uses: for a fingerprint that is registered and
\* revoked, the verifyFingerprintExtended path and the basic
\* verifyFingerprint-plus-isRevoked path both return the agent data with
\* revoked = true, and neither returns null.
C36_BothReadPathsReportRevoked ==
  \A h \in FingerprintHashes :
    (FingerprintExists(h) /\ IsRevoked(h)) =>
      \E extended \in {VerifyFingerprint(service, h, TRUE, TRUE).val},
         basic \in {VerifyFingerprint(service, h, TRUE, FALSE).val} :
        /\ extended # Null /\ basic # Null
        /\ extended.revoked /\ basic.revoked
        /\ extended.id = basic.id /\ extended.revokedAt = basic.revokedAt

\* the last call was a wallet connection that failed: connectWallet returned
\* null, or registerFingerprint / revokeFingerprint asked for the wallet key
\* and no wallet was connected
FailedWalletConnection ==
  \/ ret.op = "connectWallet" /\ ret.val = Null
  \/ /\ ret.op \in {"registerFingerprint", "revokeFingerprint"} /\ ret.out = "ok"
     /\ ret.pre.requests # <<>>
     /\ ret.pre.requests[1].keyType = "wallet"
     /\ service.connectedWalletAddress = None

\* C37: a failed wallet connection leaves the read path usable: when the
\* constructor connected to the network, then after connectWallet returned
\* null, or key retrieval failed inside registerFingerprint or
\* revokeFingerprint, verifyFingerprint and isRevoked still query the contract
\* instead of throwing 'Not connected to blockchain'.
C37_ReadPathSurvivesFailedWalletConnection ==
  FailedWalletConnection =>
    \A h \in FingerprintHashes :
      /\ VerifyFingerprint(service, h, TRUE, TRUE).out # "NotConnected"
      /\ VerifyFingerprint(service, h, TRUE, FALSE).out # "NotConnected"
      /\ ServiceIsRevoked(service, h, TRUE).out # "NotConnected"

====
